---- MODULE Spec2Model ----
(***************************************************************************)
(* State-machine model of the LevelDB in-memory core:                      *)
(*   - one shard of the LRU cache (util/cache.cc: HandleTable, LRUCache),   *)
(*   - the write batch (db/write_batch.cc).                                 *)
(*   - the memtable's reference count and interface (db/memtable.h),        *)
(*   - the arena (util/arena.h), the id counter of the sharded cache.       *)
(* Spec      : one LRU shard driven by clients that obey the handle        *)
(*             contract.                                                   *)
(* SpecWB    : one write batch driven by Put/Delete/Clear/Iterate.         *)
(* SpecMT    : two batches, Append, and replay into a memtable.            *)
(* SpecRaw   : a batch of arbitrary bytes, iterated and replayed.          *)
(* SpecId    : threads calling NewId and locking shards.                   *)
(* SpecArena : one arena serving Allocate / AllocateAligned.               *)
(***************************************************************************)
EXTENDS Integers, Sequences, FiniteSets, TLC

VARIABLES
  capacity_,   \* LRUCache::capacity_
  usage_,      \* LRUCache::usage_
  lru_,        \* LRUCache::lru_    : the list, oldest (lru_.next) first
  in_use_,     \* LRUCache::in_use_ : the list, in link order
  list_,       \* HandleTable::list_ : bucket -> chain of handles (next_hash order)
  length_,     \* HandleTable::length_
  elems_,      \* HandleTable::elems_
  mem,         \* the heap of LRUHandle objects, by address
  nextAddr,    \* next address malloc hands out
  deleted,     \* address -> number of times its deleter was invoked
  ok,          \* FALSE once an assert of cache.cc has failed
  destroyed,   \* TRUE once ~LRUCache has run
  held,        \* address -> client handles returned and not yet released
  order,       \* unreferenced cached entries, by the time they became so
  rep_,        \* WriteBatch::rep_ : the bytes
  calls,       \* the Put/Delete calls made on the batch since Clear
  seen,        \* what the recording handler received in the last Iterate
  status,      \* the Status the last Iterate / InsertInto returned
  src_,        \* rep_ of a second batch, the source of Append
  srcCalls,    \* the Put/Delete calls made on the second batch
  table_,      \* MemTable::table_ : the entries, in internal-key order
  adds,        \* the MemTable::Add calls, in call order
  refs_,       \* MemTable::refs_
  destroys,    \* number of times ~MemTable has run
  got,         \* what the last MemTable::Get returned
  balance,     \* MemTable: Ref calls minus Unref calls so far
  last_id_,    \* ShardedLRUCache::last_id_
  id_mutex_,   \* ShardedLRUCache::id_mutex_ : its holder, or 0
  mutex_,      \* LRUCache::mutex_ of each shard : its holder, or 0
  pc,          \* thread -> where it is in its call
  local,       \* thread -> the value it read from last_id_
  returned,    \* the NewId calls that returned: thread, id, ids returned before the call
  started,     \* thread -> ids that had been returned when its call started
  alloc_ptr_,  \* Arena::alloc_ptr_
  alloc_bytes_remaining_,  \* Arena::alloc_bytes_remaining_
  blocks_,     \* Arena::blocks_ : base and size of each block
  heap,        \* first address operator new[] has not handed out
  allocs,      \* the allocations served: address, bytes asked, aligned or not
  tret,        \* what the last call made on the HandleTable alone returned
  lookup_e     \* thread -> e of its LRUCache::Lookup, between table_.Lookup and Ref

cacheVars == <<capacity_, usage_, lru_, in_use_, list_, length_, elems_, mem,
               nextAddr, deleted, ok, destroyed, held, order>>
wbVars == <<rep_, calls, seen, status>>
memVars == <<table_, adds, refs_, destroys, got, balance>>
mtVars == <<src_, srcCalls, memVars>>
idVars == <<last_id_, id_mutex_, mutex_, pc, local, returned, started>>
arenaVars == <<alloc_ptr_, alloc_bytes_remaining_, blocks_, heap, allocs>>
tabVars == <<tret, lookup_e>>
restVars == <<mtVars, idVars, arenaVars, tabVars>>
vars == <<cacheVars, wbVars, restVars>>

----------------------------------------------------------------------------
(* Bounds of the exploration *)

MaxHandles == 3      \* Insert calls per run (addresses 1..MaxHandles)
MaxHeld == 2         \* client handles outstanding at one time, over all entries
Keys == {1, 2, 3}    \* cache keys the clients use
Charges == {0, 1}
Capacities == {0, 1, 2}
MaxRecords == 2      \* Put/Delete calls on the batch between two Clear
MaxSrcRecords == 1   \* Put/Delete calls on the source batch of Append

(* User keys ("k", "a"), values and header sequences of the memtable runs, *)
(* and the sequences the lookups ask for.                                  *)
MTKeys == {<<107>>, <<97>>}
MTValues == {<<1>>, <<2>>}
Sequences == {0, 10}
Queries == {9, 10, 11, 13}
MaxBody == 5         \* bytes after the header of a batch set by SetContents
RawBytes == {0, 1, 2, 128}   \* DEL / length 0, PUT / length 1, unknown tag, varint continuation
RawCounts == 0..2    \* header counts of those batches
MaxRefs == 2         \* Ref calls not yet matched by an Unref
MaxDestroys == 2     \* runs of ~MemTable the exploration follows
MaxEntries == 2      \* direct MemTable::Add calls
MaxAllocs == 3       \* allocations per arena
AllocSizes == {1, 3, 8, 1024, 1025, 4096, 5000}
MaxThreads == 2      \* threads using the sharded cache
MaxShards == 2       \* shards whose mutex the threads take
MaxIds == 3          \* NewId calls per run
MaxConcHandles == 3  \* Insert calls the threads make on the shard they share
ConcKeys == {1, 2}   \* their keys: equal hashes
ConcCapacities == {1, 2}
MaxTableHandles == 5 \* handles passed to HandleTable::Insert, Remove and Lookup calls between
MaxFill == 4         \* handles of new keys inserted after those, with no other call
TableKeys == 1..(MaxTableHandles + MaxFill)   \* the keys of both
Threads == 1..MaxThreads
Shards == 1..MaxShards

(* Keys and values of the batch: empty, bytes that read as tags or as      *)
(* lengths, a byte above 127, and one long enough for a two-byte varint.   *)
LongSlice == [i \in 1..130 |-> 2]
Slices == {<<>>, <<0>>, <<1, 0>>, <<200, 1, 1>>, LongSlice}


(* spec.md section 8, scenario 5 (LRU eviction): capacity 10, keys A..F     *)
(* inserted with charge 2 each and released at once.                       *)
Scenario == [capacity |-> 10, charge |-> 2, keys |-> 6]

nullptr == 0
MaxOf(S) == CHOOSE x \in S : \A y \in S : y <= x
Addrs == 1..MaxOf({MaxHandles, Scenario.keys, MaxTableHandles + MaxFill})

----------------------------------------------------------------------------
(* Sequence helpers *)

Without(s, e) == SelectSeq(s, LAMBDA x: x # e)

Range(s) == {s[i] : i \in 1..Len(s)}

RECURSIVE SumOver(_, _)
SumOver(f, S) ==
  IF S = {} THEN 0
  ELSE LET x == CHOOSE y \in S : TRUE IN f[x] + SumOver(f, S \ {x})

(* Client handles returned by Insert or Lookup and not yet released *)
Outstanding == SumOver(held, Addrs)

RECURSIVE BitAnd(_, _)
BitAnd(a, b) ==
  IF a = 0 \/ b = 0 THEN 0
  ELSE (a % 2) * (b % 2) + 2 * BitAnd(a \div 2, b \div 2)

----------------------------------------------------------------------------
(* Hash of a key: the clients of a shard pass hash = Hash(key, 0).  Keys 1 *)
(* and 2 collide on the whole hash, key 3 shares their bucket of 4.        *)

HashSlice(k) ==
  CASE k = 1 -> 5
    [] k = 2 -> 5
    [] k = 3 -> 1
    [] k = 4 -> 2
    [] OTHER -> 4 * k + 1

----------------------------------------------------------------------------
(* The shard as a value: the operators below transform it the way the      *)
(* member functions transform the object.                                  *)

Cur == [capacity |-> capacity_, usage |-> usage_, lru |-> lru_,
        in_use |-> in_use_, list |-> list_, length |-> length_,
        elems |-> elems_, mem |-> mem, deleted |-> deleted, ok |-> ok]

NoHandle == [key |-> 0, hash |-> 0, charge |-> 0, in_cache |-> FALSE,
             refs |-> 0, live |-> FALSE]

(* HandleTable *)

RECURSIVE ChainPos(_, _, _, _, _)
ChainPos(S, chain, i, key, hash) ==
  IF i > Len(chain) THEN i
  ELSE IF S.mem[chain[i]].hash # hash \/ key # S.mem[chain[i]].key
       THEN ChainPos(S, chain, i + 1, key, hash)
       ELSE i

FindPointer(S, key, hash) ==
  LET b == BitAnd(hash, S.length - 1)
  IN [b |-> b, i |-> ChainPos(S, S.list[b], 1, key, hash)]

Deref(S, ptr) ==
  IF ptr.i > Len(S.list[ptr.b]) THEN nullptr ELSE S.list[ptr.b][ptr.i]

TableLookup(S, key, hash) == Deref(S, FindPointer(S, key, hash))

RECURSIVE NewLength(_, _)
NewLength(n, elems) == IF n < elems THEN NewLength(2 * n, elems) ELSE n

RECURSIVE Rehash(_, _, _, _)
Rehash(S, hs, i, new_list) ==
  IF i > Len(hs) THEN new_list
  ELSE LET b == BitAnd(S.mem[hs[i]].hash, Len(new_list) - 1)
       IN Rehash(S, hs, i + 1,
                 [j \in DOMAIN new_list |->
                    IF j = b + 1 THEN <<hs[i]>> \o new_list[j] ELSE new_list[j]])

RECURSIVE Flatten(_, _, _)
Flatten(list, i, n) ==
  IF i >= n THEN <<>> ELSE list[i] \o Flatten(list, i + 1, n)

(* Resize that leaves every chain at its old index. *)
ResizeKeepBuckets(S) ==
  LET new_length == NewLength(4, S.elems)
  IN [S EXCEPT !.list = [b \in 0..(new_length - 1) |->
                           IF b < S.length THEN S.list[b] ELSE <<>>],
               !.length = new_length]

Resize(S) ==
  LET new_length == NewLength(4, S.elems)
      moved == Rehash(S, Flatten(S.list, 0, S.length), 1,
                      [j \in 1..new_length |-> <<>>])
  IN [S EXCEPT !.list = [b \in 0..(new_length - 1) |-> moved[b + 1]],
               !.length = new_length]

(* HandleTable() : length_(0), elems_(0), list_(nullptr) { Resize(); } *)
NewTable ==
  Resize([length |-> 0, elems |-> 0, list |-> <<>>, mem |-> <<>>])

(* Insert that counts the new handle even when it takes a prior one's place. *)
TableInsertCountAll(S, h) ==
  LET ptr == FindPointer(S, S.mem[h].key, S.mem[h].hash)
      old == Deref(S, ptr)
      chain == S.list[ptr.b]
      S1 == [S EXCEPT !.list[ptr.b] =
               IF old = nullptr THEN Append(chain, h)
               ELSE [chain EXCEPT ![ptr.i] = h]]
      S3 == [S1 EXCEPT !.elems = @ + 1]
  IN [S |-> IF S3.elems > S3.length THEN Resize(S3) ELSE S3, h |-> old]

(* Insert that links the new handle without looking for a prior one. *)
TableInsertNoReplace(S, h) ==
  LET b == BitAnd(S.mem[h].hash, S.length - 1)
      S3 == [S EXCEPT !.list[b] = Append(@, h), !.elems = @ + 1]
  IN [S |-> IF S3.elems > S3.length THEN Resize(S3) ELSE S3, h |-> nullptr]

TableInsert(S, h) ==
  LET ptr == FindPointer(S, S.mem[h].key, S.mem[h].hash)
      old == Deref(S, ptr)
      chain == S.list[ptr.b]
      S1 == [S EXCEPT !.list[ptr.b] =
               IF old = nullptr THEN Append(chain, h)
               ELSE [chain EXCEPT ![ptr.i] = h]]
      S2 == IF old = nullptr
            THEN LET S3 == [S1 EXCEPT !.elems = @ + 1]
                 IN IF S3.elems > S3.length THEN Resize(S3) ELSE S3
            ELSE S1
  IN [S |-> S2, h |-> old]

TableRemove(S, key, hash) ==
  LET ptr == FindPointer(S, key, hash)
      result == Deref(S, ptr)
  IN IF result # nullptr
     THEN [S |-> [S EXCEPT !.list[ptr.b] = Without(@, result),
                           !.elems = @ - 1],
           h |-> result]
     ELSE [S |-> S, h |-> nullptr]

(* LRUCache private members *)

LRU_Remove(S, e) ==
  [S EXCEPT !.lru = Without(@, e), !.in_use = Without(@, e)]

(* Links e after the list head instead of before it. *)
LRU_Prepend(S, list, e) ==
  IF list = "lru" THEN [S EXCEPT !.lru = <<e>> \o @]
  ELSE [S EXCEPT !.in_use = <<e>> \o @]

LRU_Append(S, list, e) ==
  IF list = "lru" THEN [S EXCEPT !.lru = Append(@, e)]
  ELSE [S EXCEPT !.in_use = Append(@, e)]

Ref(S, e) ==
  LET S1 == IF S.mem[e].refs = 1 /\ S.mem[e].in_cache
            THEN LRU_Append(LRU_Remove(S, e), "in_use", e)
            ELSE S
  IN [S1 EXCEPT !.mem[e].refs = @ + 1]

(* Unref without the move back to lru_ when the last client lets go. *)
UnrefNoMove(S, e) ==
  IF S.mem[e].refs <= 0 THEN [S EXCEPT !.ok = FALSE]
  ELSE LET S1 == [S EXCEPT !.mem[e].refs = @ - 1]
       IN IF S1.mem[e].refs = 0
          THEN [S1 EXCEPT !.ok = @ /\ ~S1.mem[e].in_cache,
                          !.deleted[e] = @ + 1,
                          !.mem[e] = NoHandle]
          ELSE S1

(* Unref that frees an entry as soon as the cache has let go of it. *)
UnrefFreeUncached(S, e) ==
  IF S.mem[e].refs <= 0 THEN [S EXCEPT !.ok = FALSE]
  ELSE LET S1 == [S EXCEPT !.mem[e].refs = @ - 1]
       IN IF ~S1.mem[e].in_cache
          THEN [S1 EXCEPT !.deleted[e] = @ + 1, !.mem[e] = NoHandle]
          ELSE IF S1.mem[e].refs = 1
               THEN LRU_Append(LRU_Remove(S1, e), "lru", e)
               ELSE S1

Unref(S, e) ==
  IF S.mem[e].refs <= 0 THEN [S EXCEPT !.ok = FALSE]
  ELSE LET S1 == [S EXCEPT !.mem[e].refs = @ - 1]
       IN IF S1.mem[e].refs = 0
          THEN [S1 EXCEPT !.ok = @ /\ ~S1.mem[e].in_cache,
                          !.deleted[e] = @ + 1,
                          !.mem[e] = NoHandle]
          ELSE IF S1.mem[e].in_cache /\ S1.mem[e].refs = 1
               THEN LRU_Append(LRU_Remove(S1, e), "lru", e)
               ELSE S1

(* FinishErase that keeps the cache's reference. *)
FinishEraseNoUnref(S, e) ==
  IF e # nullptr
  THEN LET S1 == [S EXCEPT !.ok = @ /\ S.mem[e].in_cache]
           S2 == LRU_Remove(S1, e)
       IN [S2 EXCEPT !.mem[e].in_cache = FALSE,
                     !.usage = @ - S.mem[e].charge]
  ELSE S

(* FinishErase that leaves usage_ alone. *)
FinishEraseKeepUsage(S, e) ==
  IF e # nullptr
  THEN LET S1 == [S EXCEPT !.ok = @ /\ S.mem[e].in_cache]
           S2 == LRU_Remove(S1, e)
           S3 == [S2 EXCEPT !.mem[e].in_cache = FALSE]
       IN Unref(S3, e)
  ELSE S

FinishErase(S, e) ==
  IF e # nullptr
  THEN LET S1 == [S EXCEPT !.ok = @ /\ S.mem[e].in_cache]
           S2 == LRU_Remove(S1, e)
           S3 == [S2 EXCEPT !.mem[e].in_cache = FALSE,
                            !.usage = @ - S.mem[e].charge]
       IN Unref(S3, e)
  ELSE S

(* Eviction with `if` for `while`: one victim at most. *)
EvictOnce(S) ==
  IF S.ok /\ S.usage > S.capacity /\ S.lru # <<>>
  THEN LET old == Head(S.lru)
           S1 == [S EXCEPT !.ok = @ /\ S.mem[old].refs = 1]
           R == TableRemove(S1, S1.mem[old].key, S1.mem[old].hash)
           S2 == FinishErase(R.S, R.h)
       IN [S2 EXCEPT !.ok = @ /\ R.h # nullptr]
  ELSE S

(* Eviction over one list of all cached entries, referenced or not. *)
RECURSIVE EvictAny(_)
EvictAny(S) ==
  IF S.ok /\ S.usage > S.capacity /\ S.lru \o S.in_use # <<>>
  THEN LET old == Head(S.lru \o S.in_use)
           R == TableRemove(S, S.mem[old].key, S.mem[old].hash)
           S2 == FinishErase(R.S, R.h)
       IN EvictAny([S2 EXCEPT !.ok = @ /\ R.h # nullptr])
  ELSE S

RECURSIVE EvictLoop(_)
EvictLoop(S) ==
  IF S.ok /\ S.usage > S.capacity /\ S.lru # <<>>
  THEN LET old == Head(S.lru)
           S1 == [S EXCEPT !.ok = @ /\ S.mem[old].refs = 1]
           R == TableRemove(S1, S1.mem[old].key, S1.mem[old].hash)
           S2 == FinishErase(R.S, R.h)
       IN EvictLoop([S2 EXCEPT !.ok = @ /\ R.h # nullptr])
  ELSE S

RECURSIVE PruneLoop(_)
PruneLoop(S) ==
  IF S.ok /\ S.lru # <<>>
  THEN LET e == Head(S.lru)
           S1 == [S EXCEPT !.ok = @ /\ S.mem[e].refs = 1]
           R == TableRemove(S1, S1.mem[e].key, S1.mem[e].hash)
           S2 == FinishErase(R.S, R.h)
       IN PruneLoop([S2 EXCEPT !.ok = @ /\ R.h # nullptr])
  ELSE S

RECURSIVE DestroyLoop(_, _, _)
DestroyLoop(S, es, i) ==
  IF i > Len(es) THEN S
  ELSE LET e == es[i]
           S1 == [S EXCEPT !.ok = @ /\ S.mem[e].in_cache /\ S.mem[e].refs = 1,
                           !.mem[e].in_cache = FALSE]
       IN DestroyLoop(Unref(S1, e), es, i + 1)

(* LRUCache public members, as functions of the shard value *)

(* Insert without the eviction loop. *)
InsertBodyNoEvict(S, e, key, hash, charge) ==
  LET S0 == [S EXCEPT !.mem[e] = [key |-> key, hash |-> hash, charge |-> charge,
                                  in_cache |-> FALSE, refs |-> 1, live |-> TRUE]]
  IN IF S0.capacity > 0
     THEN LET A == [S0 EXCEPT !.mem[e].refs = @ + 1,
                              !.mem[e].in_cache = TRUE]
              B == LRU_Append(A, "in_use", e)
              C == [B EXCEPT !.usage = @ + charge]
              R == TableInsert(C, e)
          IN FinishErase(R.S, R.h)
     ELSE S0

(* Insert without the capacity_ > 0 test. *)
InsertBodyAlwaysCache(S, e, key, hash, charge) ==
  LET S0 == [S EXCEPT !.mem[e] = [key |-> key, hash |-> hash, charge |-> charge,
                                  in_cache |-> TRUE, refs |-> 2, live |-> TRUE]]
      B == LRU_Append(S0, "in_use", e)
      C == [B EXCEPT !.usage = @ + charge]
      R == TableInsert(C, e)
  IN EvictLoop(FinishErase(R.S, R.h))

(* Insert whose eviction loop runs while usage_ >= capacity_. *)
RECURSIVE EvictLoopAtCapacity(_)
EvictLoopAtCapacity(S) ==
  IF S.ok /\ S.usage >= S.capacity /\ S.lru # <<>>
  THEN LET old == Head(S.lru)
           R == TableRemove(S, S.mem[old].key, S.mem[old].hash)
           S2 == FinishErase(R.S, R.h)
       IN EvictLoopAtCapacity([S2 EXCEPT !.ok = @ /\ R.h # nullptr])
  ELSE S

InsertBodyEvictAtCapacity(S, e, key, hash, charge) ==
  LET S0 == [S EXCEPT !.mem[e] = [key |-> key, hash |-> hash, charge |-> charge,
                                  in_cache |-> FALSE, refs |-> 1, live |-> TRUE]]
      S1 == IF S0.capacity > 0
            THEN LET A == [S0 EXCEPT !.mem[e].refs = @ + 1,
                                     !.mem[e].in_cache = TRUE]
                     B == LRU_Append(A, "in_use", e)
                     C == [B EXCEPT !.usage = @ + charge]
                     R == TableInsert(C, e)
                 IN FinishErase(R.S, R.h)
            ELSE S0
  IN EvictLoopAtCapacity(S1)

(* Insert that does not add the charge to usage_. *)
InsertBodyNoCharge(S, e, key, hash, charge) ==
  LET S0 == [S EXCEPT !.mem[e] = [key |-> key, hash |-> hash, charge |-> charge,
                                  in_cache |-> FALSE, refs |-> 1, live |-> TRUE]]
      S1 == IF S0.capacity > 0
            THEN LET A == [S0 EXCEPT !.mem[e].refs = @ + 1,
                                     !.mem[e].in_cache = TRUE]
                     B == LRU_Append(A, "in_use", e)
                     R == TableInsert(B, e)
                 IN FinishErase(R.S, R.h)
            ELSE S0
  IN EvictLoop(S1)

InsertBody(S, e, key, hash, charge) ==
  LET S0 == [S EXCEPT !.mem[e] = [key |-> key, hash |-> hash, charge |-> charge,
                                  in_cache |-> FALSE, refs |-> 1, live |-> TRUE]]
      S1 == IF S0.capacity > 0
            THEN LET A == [S0 EXCEPT !.mem[e].refs = @ + 1,
                                     !.mem[e].in_cache = TRUE]
                     B == LRU_Append(A, "in_use", e)
                     C == [B EXCEPT !.usage = @ + charge]
                     R == TableInsert(C, e)
                 IN FinishErase(R.S, R.h)
            ELSE S0
  IN EvictLoop(S1)

LookupBody(S, key, hash) ==
  LET e == TableLookup(S, key, hash)
  IN [S |-> IF e # nullptr THEN Ref(S, e) ELSE S, h |-> e]

ReleaseBody(S, handle) == Unref(S, handle)

(* Erase that leaves the handle linked in the table. *)
EraseBodyKeepInTable(S, key, hash) ==
  FinishErase(S, TableLookup(S, key, hash))

EraseBody(S, key, hash) ==
  LET R == TableRemove(S, key, hash) IN FinishErase(R.S, R.h)

PruneBody(S) == PruneLoop(S)

DestroyBody(S) ==
  DestroyLoop([S EXCEPT !.ok = @ /\ S.in_use = <<>>], S.lru, 1)

----------------------------------------------------------------------------
(* The shard's state machine *)

Store(S) ==
  /\ usage_' = S.usage
  /\ lru_' = S.lru
  /\ in_use_' = S.in_use
  /\ list_' = S.list
  /\ length_' = S.length
  /\ elems_' = S.elems
  /\ mem' = S.mem
  /\ deleted' = S.deleted
  /\ ok' = S.ok
  /\ UNCHANGED capacity_

(* Entries that are cached and that no client holds, oldest first, after a *)
(* call: those of before that still qualify, then the one just released.   *)
NextOrder(S, heldAfter, released) ==
  LET keep(x) == S.mem[x].live /\ S.mem[x].in_cache /\ heldAfter[x] = 0
      kept == SelectSeq(Without(order, released), keep)
  IN IF released # nullptr /\ keep(released)
     THEN Append(kept, released) ELSE kept

Running == ok /\ ~destroyed

(* The clients.  With a small capacity the client is arbitrary, within the *)
(* bounds; with the capacity of scenario 5 it is that scenario's client,   *)
(* which inserts the keys in order and releases each handle at once.       *)
FreeClient == capacity_ \in Capacities

MayInsert(key, charge) ==
  IF FreeClient
  THEN /\ key \in Keys
       /\ charge \in Charges
       /\ nextAddr <= MaxHandles
       /\ Outstanding < MaxHeld
  ELSE /\ key = nextAddr
       /\ key <= Scenario.keys
       /\ charge = Scenario.charge
       /\ Outstanding = 0

Insert(key, charge) ==
  /\ Running
  /\ MayInsert(key, charge)
  /\ \E S \in {InsertBody(Cur, nextAddr, key, HashSlice(key), charge)} :
       /\ Store(S)
       /\ held' = [held EXCEPT ![nextAddr] = 1]
       /\ order' = NextOrder(S, held', nullptr)
  /\ nextAddr' = nextAddr + 1
  /\ UNCHANGED <<destroyed, wbVars, restVars>>

Lookup(key) ==
  /\ Running
  /\ FreeClient
  /\ \E R \in {LookupBody(Cur, key, HashSlice(key))} :
       /\ R.h # nullptr => Outstanding < MaxHeld
       /\ Store(R.S)
       /\ held' = IF R.h # nullptr THEN [held EXCEPT ![R.h] = @ + 1] ELSE held
       /\ order' = NextOrder(R.S, held', nullptr)
  /\ UNCHANGED <<nextAddr, destroyed, wbVars, restVars>>

Release(handle) ==
  /\ Running
  /\ held[handle] > 0
  /\ \E S \in {ReleaseBody(Cur, handle)} :
       /\ Store(S)
       /\ held' = [held EXCEPT ![handle] = @ - 1]
       /\ order' = NextOrder(S, held', handle)
  /\ UNCHANGED <<nextAddr, destroyed, wbVars, restVars>>

Erase(key) ==
  /\ Running
  /\ FreeClient
  /\ \E S \in {EraseBody(Cur, key, HashSlice(key))} :
       /\ Store(S)
       /\ order' = NextOrder(S, held, nullptr)
  /\ UNCHANGED <<nextAddr, destroyed, held, wbVars, restVars>>

Prune ==
  /\ Running
  /\ FreeClient
  /\ \E S \in {PruneBody(Cur)} :
       /\ Store(S)
       /\ order' = NextOrder(S, held, nullptr)
  /\ UNCHANGED <<nextAddr, destroyed, held, wbVars, restVars>>

Destroy ==
  /\ Running
  /\ FreeClient
  /\ in_use_ = <<>>
  /\ \E S \in {DestroyBody(Cur)} :
       /\ Store(S)
       /\ order' = NextOrder(S, held, nullptr)
  /\ destroyed' = TRUE
  /\ UNCHANGED <<nextAddr, held, wbVars, restVars>>

(* The shard after LRUCache() and SetCapacity(capacity) *)
CacheNew(capacity) ==
  /\ capacity_ = capacity
  /\ usage_ = 0
  /\ lru_ = <<>>
  /\ in_use_ = <<>>
  /\ length_ = NewTable.length
  /\ list_ = NewTable.list
  /\ elems_ = NewTable.elems
  /\ mem = [a \in Addrs |-> NoHandle]
  /\ nextAddr = 1
  /\ deleted = [a \in Addrs |-> 0]
  /\ ok = TRUE
  /\ destroyed = FALSE
  /\ held = [a \in Addrs |-> 0]
  /\ order = <<>>

(* No batch is in play while the shard is exercised *)
WBIdle ==
  /\ rep_ = <<>>
  /\ calls = <<>>
  /\ seen = <<>>
  /\ status = "none"

(* No Get has returned yet *)
NoGet == [key |-> <<>>, seq |-> 0,
          result |-> [hit |-> FALSE, status |-> "none", value |-> <<>>]]

(* MemTable(comparator): an empty index, reference count zero; no second  *)
(* batch.                                                                  *)
MemTableNew ==
  /\ src_ = <<>>
  /\ srcCalls = <<>>
  /\ table_ = <<>>
  /\ adds = <<>>
  /\ refs_ = 0
  /\ destroys = 0
  /\ got = NoGet
  /\ balance = 0

(* ShardedLRUCache(capacity): last_id_(0), no mutex held, no call running *)
IdNew ==
  /\ last_id_ = 0
  /\ id_mutex_ = 0
  /\ mutex_ = [s \in Shards |-> 0]
  /\ pc = [t \in Threads |-> "idle"]
  /\ local = [t \in Threads |-> 0]
  /\ returned = <<>>
  /\ started = [t \in Threads |-> {}]

(* Alignment of the addresses operator new[] returns *)
NewAlign == 16

(* No call has been made on a HandleTable alone, no thread is in Lookup *)
TableIdle == tret = nullptr /\ lookup_e = [t \in Threads |-> nullptr]

(* Arena(): no current block *)
ArenaNew ==
  /\ alloc_ptr_ = nullptr
  /\ alloc_bytes_remaining_ = 0
  /\ blocks_ = <<>>
  /\ heap = NewAlign
  /\ allocs = <<>>

Init ==
  /\ \E capacity \in Capacities \cup {Scenario.capacity} : CacheNew(capacity)
  /\ WBIdle
  /\ MemTableNew
  /\ IdNew
  /\ ArenaNew
  /\ TableIdle

Next ==
  \/ \E key \in Keys \cup (1..Scenario.keys),
        charge \in Charges \cup {Scenario.charge} : Insert(key, charge)
  \/ \E key \in Keys : Lookup(key)
  \/ \E handle \in Addrs : Release(handle)
  \/ \E key \in Keys : Erase(key)
  \/ Prune
  \/ Destroy

Spec == Init /\ [][Next]_vars

----------------------------------------------------------------------------
(* util/coding: fixed-width and varint encodings of the batch format       *)
(* (spec.md section 3: seq:u64_le, count:u32_le, varstring =               *)
(* varint32(len) bytes[len]).                                              *)

EncodeFixed32(n) ==
  <<n % 256, (n \div 256) % 256, (n \div 65536) % 256, (n \div 16777216) % 256>>

DecodeFixed32(b) == b[1] + 256 * b[2] + 65536 * b[3] + 16777216 * b[4]

RECURSIVE PutVarint32(_)
PutVarint32(v) ==
  IF v >= 128 THEN <<128 + (v % 128)>> \o PutVarint32(v \div 128) ELSE <<v>>

(* [ok, value, rest]: at most five bytes, seven bits each, low bits first *)
RECURSIVE GetVarint32From(_, _, _, _)
GetVarint32From(input, n, scale, result) ==
  IF n > 5 \/ input = <<>> THEN [ok |-> FALSE, value |-> 0, rest |-> input]
  ELSE LET byte == Head(input)
       IN IF byte >= 128
          THEN GetVarint32From(Tail(input), n + 1, scale * 128,
                               result + (byte % 128) * scale)
          ELSE [ok |-> TRUE, value |-> result + byte * scale,
                rest |-> Tail(input)]

GetVarint32(input) == GetVarint32From(input, 1, 1, 0)

PutLengthPrefixedSlice(dst, value) == dst \o PutVarint32(Len(value)) \o value

(* [ok, slice, rest] *)
GetLengthPrefixedSlice(input) ==
  LET v == GetVarint32(input)
  IN IF v.ok /\ Len(v.rest) >= v.value
     THEN [ok |-> TRUE, slice |-> SubSeq(v.rest, 1, v.value),
           rest |-> SubSeq(v.rest, v.value + 1, Len(v.rest))]
     ELSE [ok |-> FALSE, slice |-> <<>>, rest |-> input]

(* db/dbformat.h: enum ValueType *)
kTypeDeletion == 0
kTypeValue == 1

----------------------------------------------------------------------------
(* WriteBatch, as functions of rep_ *)

kHeader == 12

ClearBody == [i \in 1..kHeader |-> 0]

Count(rep) == DecodeFixed32(SubSeq(rep, 9, 12))

SetCount(rep, n) ==
  LET b == EncodeFixed32(n)
  IN [i \in 1..Len(rep) |-> IF i \in 9..12 THEN b[i - 8] ELSE rep[i]]

(* Put that leaves the count of the header alone. *)
PutBodyNoCount(rep, key, value) ==
  PutLengthPrefixedSlice(
    PutLengthPrefixedSlice(Append(rep, kTypeValue), key), value)

PutBody(rep, key, value) ==
  PutLengthPrefixedSlice(
    PutLengthPrefixedSlice(
      Append(SetCount(rep, Count(rep) + 1), kTypeValue), key), value)

DeleteBody(rep, key) ==
  PutLengthPrefixedSlice(
    Append(SetCount(rep, Count(rep) + 1), kTypeDeletion), key)

(* The calls a handler receives *)
PutCall(key, value) == [op |-> "Put", key |-> key, value |-> value]
DeleteCall(key) == [op |-> "Delete", key |-> key, value |-> <<>>]

(* The loop of Iterate without the comparison of found with the count. *)
RECURSIVE IterateLoopNoCount(_, _, _, _)
IterateLoopNoCount(rep, input, found, log) ==
  IF input = <<>>
  THEN [status |-> "OK", seen |-> log]
  ELSE LET tag == Head(input)
           k == GetLengthPrefixedSlice(Tail(input))
           v == GetLengthPrefixedSlice(k.rest)
       IN IF tag = kTypeValue
          THEN IF k.ok /\ v.ok
               THEN IterateLoopNoCount(rep, v.rest, found + 1,
                                       Append(log, PutCall(k.slice, v.slice)))
               ELSE [status |-> "Corruption: bad WriteBatch Put", seen |-> log]
          ELSE IF tag = kTypeDeletion
          THEN IF k.ok
               THEN IterateLoopNoCount(rep, k.rest, found + 1,
                                       Append(log, DeleteCall(k.slice)))
               ELSE [status |-> "Corruption: bad WriteBatch Delete",
                     seen |-> log]
          ELSE [status |-> "Corruption: unknown WriteBatch tag", seen |-> log]

(* The loop of Iterate over the bytes after the header: [status, seen] *)
RECURSIVE IterateLoop(_, _, _, _)
IterateLoop(rep, input, found, log) ==
  IF input = <<>>
  THEN IF found # Count(rep)
       THEN [status |-> "Corruption: WriteBatch has wrong count", seen |-> log]
       ELSE [status |-> "OK", seen |-> log]
  ELSE LET tag == Head(input)
           k == GetLengthPrefixedSlice(Tail(input))
           v == GetLengthPrefixedSlice(k.rest)
       IN IF tag = kTypeValue
          THEN IF k.ok /\ v.ok
               THEN IterateLoop(rep, v.rest, found + 1,
                                Append(log, PutCall(k.slice, v.slice)))
               ELSE [status |-> "Corruption: bad WriteBatch Put", seen |-> log]
          ELSE IF tag = kTypeDeletion
          THEN IF k.ok
               THEN IterateLoop(rep, k.rest, found + 1,
                                Append(log, DeleteCall(k.slice)))
               ELSE [status |-> "Corruption: bad WriteBatch Delete",
                     seen |-> log]
          ELSE [status |-> "Corruption: unknown WriteBatch tag", seen |-> log]

IterateBody(rep) ==
  IF Len(rep) < kHeader
  THEN [status |-> "Corruption: malformed WriteBatch (too small)",
        seen |-> <<>>]
  ELSE IterateLoop(rep, SubSeq(rep, kHeader + 1, Len(rep)), 0, <<>>)

----------------------------------------------------------------------------
(* The write batch's state machine: a client that fills a batch and reads  *)
(* it back through a recording handler.                                    *)

Put(key, value) ==
  /\ Len(calls) < MaxRecords
  /\ rep_' = PutBody(rep_, key, value)
  /\ calls' = Append(calls, PutCall(key, value))
  /\ seen' = <<>>
  /\ status' = "none"
  /\ UNCHANGED <<cacheVars, restVars>>

Delete(key) ==
  /\ Len(calls) < MaxRecords
  /\ rep_' = DeleteBody(rep_, key)
  /\ calls' = Append(calls, DeleteCall(key))
  /\ seen' = <<>>
  /\ status' = "none"
  /\ UNCHANGED <<cacheVars, restVars>>

Clear ==
  /\ rep_' = ClearBody
  /\ calls' = <<>>
  /\ seen' = <<>>
  /\ status' = "none"
  /\ UNCHANGED <<cacheVars, restVars>>

Iterate ==
  /\ LET r == IterateBody(rep_)
     IN /\ seen' = r.seen
        /\ status' = r.status
  /\ UNCHANGED <<rep_, calls, cacheVars, restVars>>

InitWB ==
  /\ CacheNew(0)
  /\ rep_ = ClearBody
  /\ calls = <<>>
  /\ seen = <<>>
  /\ status = "none"
  /\ MemTableNew
  /\ IdNew
  /\ ArenaNew
  /\ TableIdle

NextWB ==
  \/ \E key \in Slices, value \in Slices : Put(key, value)
  \/ \E key \in Slices : Delete(key)
  \/ Clear
  \/ Iterate

SpecWB == InitWB /\ [][NextWB]_vars

----------------------------------------------------------------------------
(* The header's sequence number, the second batch, and Append *)

RECURSIVE ShiftRight(_, _)
ShiftRight(n, bytes) == IF bytes = 0 THEN n ELSE ShiftRight(n \div 256, bytes - 1)

EncodeFixed64(n) == [i \in 1..8 |-> ShiftRight(n, i - 1) % 256]

DecodeFixed64(b) ==
  b[1] + 256 * (b[2] + 256 * (b[3] + 256 * (b[4] + 256 * (b[5] + 256 *
    (b[6] + 256 * (b[7] + 256 * b[8]))))))

Sequence(rep) == DecodeFixed64(SubSeq(rep, 1, 8))

SetSequence(rep, seq) ==
  LET b == EncodeFixed64(seq)
  IN [i \in 1..Len(rep) |-> IF i \in 1..8 THEN b[i] ELSE rep[i]]

(* Append that keeps the source's header in the copied bytes. *)
AppendBodyKeepHeader(dst, src) ==
  [dst |-> SetCount(dst, Count(dst) + Count(src)) \o src,
   src |-> src,
   ok |-> Len(src) >= kHeader]

(* [dst, src, ok]: the two batches after the call, and the assert *)
AppendBody(dst, src) ==
  [dst |-> SetCount(dst, Count(dst) + Count(src))
             \o SubSeq(src, kHeader + 1, Len(src)),
   src |-> src,
   ok |-> Len(src) >= kHeader]

----------------------------------------------------------------------------
(* MemTable: the index as the sequence of its entries in internal-key      *)
(* order (user key ascending, then sequence and type descending), and the  *)
(* Add calls in call order.                                                *)

(* The bytewise comparator on user keys: -1, 0, 1 *)
RECURSIVE BytewiseCompare(_, _)
BytewiseCompare(a, b) ==
  IF a = <<>> THEN (IF b = <<>> THEN 0 ELSE -1)
  ELSE IF b = <<>> THEN 1
  ELSE IF Head(a) < Head(b) THEN -1
  ELSE IF Head(a) > Head(b) THEN 1
  ELSE BytewiseCompare(Tail(a), Tail(b))

(* The trailer of an internal key: (sequence << 8) | type *)
PackSequenceAndType(seq, type) == seq * 256 + type

(* InternalKeyComparator::Compare on [key, seq, type] *)
InternalCompare(a, b) ==
  LET r == BytewiseCompare(a.key, b.key)
      x == PackSequenceAndType(a.seq, a.type)
      y == PackSequenceAndType(b.seq, b.type)
  IN IF r # 0 THEN r
     ELSE IF x > y THEN -1
     ELSE IF x < y THEN 1
     ELSE 0

(* Position of the first entry of the index that is >= target, or Len + 1 *)
RECURSIVE Seek(_, _, _)
Seek(table, target, i) ==
  IF i > Len(table) THEN i
  ELSE IF InternalCompare(table[i], target) >= 0 THEN i
  ELSE Seek(table, target, i + 1)

NewMemTable == [table |-> <<>>, adds |-> <<>>]

MemTableAdd(M, seq, type, key, value) ==
  LET e == [key |-> key, seq |-> seq, type |-> type, value |-> value]
      i == Seek(M.table, e, 1)
  IN [table |-> SubSeq(M.table, 1, i - 1) \o <<e>>
                  \o SubSeq(M.table, i, Len(M.table)),
      adds |-> Append(M.adds, e)]

(* The lookup key of (user key, sequence): tag kValueTypeForSeek *)
LookupKey(key, seq) == [key |-> key, seq |-> seq, type |-> kTypeValue]

(* [hit, status, value] *)
MemTableGet(M, key, seq) ==
  LET i == Seek(M.table, LookupKey(key, seq), 1)
  IN IF i <= Len(M.table) /\ M.table[i].key = key
     THEN IF M.table[i].type = kTypeValue
          THEN [hit |-> TRUE, status |-> "OK", value |-> M.table[i].value]
          ELSE [hit |-> TRUE, status |-> "NotFound", value |-> <<>>]
     ELSE [hit |-> FALSE, status |-> "OK", value |-> <<>>]

----------------------------------------------------------------------------
(* MemTableInserter and InsertInto *)

(* A Put handler that does not advance the sequence number. *)
InserterPutNoIncrement(I, key, value) ==
  [sequence_ |-> I.sequence_,
   mem_ |-> MemTableAdd(I.mem_, I.sequence_, kTypeValue, key, value)]

(* A Delete handler that does not advance the sequence number. *)
InserterDeleteNoIncrement(I, key) ==
  [sequence_ |-> I.sequence_,
   mem_ |-> MemTableAdd(I.mem_, I.sequence_, kTypeDeletion, key, <<>>)]

InserterPut(I, key, value) ==
  [sequence_ |-> I.sequence_ + 1,
   mem_ |-> MemTableAdd(I.mem_, I.sequence_, kTypeValue, key, value)]

InserterDelete(I, key) ==
  [sequence_ |-> I.sequence_ + 1,
   mem_ |-> MemTableAdd(I.mem_, I.sequence_, kTypeDeletion, key, <<>>)]

(* The handler calls Iterate made, in order, applied to the inserter *)
RECURSIVE Replay(_, _, _)
Replay(I, log, i) ==
  IF i > Len(log) THEN I
  ELSE Replay(IF log[i].op = "Put"
              THEN InserterPut(I, log[i].key, log[i].value)
              ELSE InserterDelete(I, log[i].key),
              log, i + 1)

(* InsertInto that gives the memtable back untouched when Iterate fails. *)
InsertIntoBodyAtomic(rep, M) ==
  LET r == IterateBody(rep)
      I == Replay([sequence_ |-> IF Len(rep) >= kHeader THEN Sequence(rep) ELSE 0,
                   mem_ |-> M], r.seen, 1)
  IN [status |-> r.status, mem |-> IF r.status = "OK" THEN I.mem_ ELSE M]

(* [status, mem] *)
InsertIntoBody(rep, M) ==
  LET r == IterateBody(rep)
      I == Replay([sequence_ |-> IF Len(rep) >= kHeader THEN Sequence(rep) ELSE 0,
                   mem_ |-> M], r.seen, 1)
  IN [status |-> r.status, mem |-> I.mem_]

----------------------------------------------------------------------------
(* SpecMT: a client fills two batches, appends the second to the first,    *)
(* sets the header sequence, replays the first into a memtable and reads   *)
(* the memtable.                                                           *)

WriteSequence(seq) ==
  /\ rep_' = SetSequence(rep_, seq)
  /\ seen' = <<>>
  /\ status' = "none"
  /\ UNCHANGED <<calls, cacheVars, restVars>>

SrcPut(key, value) ==
  /\ Len(srcCalls) < MaxSrcRecords
  /\ src_' = PutBody(src_, key, value)
  /\ srcCalls' = Append(srcCalls, PutCall(key, value))
  /\ UNCHANGED memVars
  /\ UNCHANGED <<cacheVars, wbVars, idVars, arenaVars, tabVars>>

SrcDelete(key) ==
  /\ Len(srcCalls) < MaxSrcRecords
  /\ src_' = DeleteBody(src_, key)
  /\ srcCalls' = Append(srcCalls, DeleteCall(key))
  /\ UNCHANGED memVars
  /\ UNCHANGED <<cacheVars, wbVars, idVars, arenaVars, tabVars>>

(* rep_.Append(src_) *)
BatchAppend ==
  /\ Len(calls) <= MaxRecords
  /\ \E r \in {AppendBody(rep_, src_)} :
       /\ r.ok
       /\ rep_' = r.dst
       /\ src_' = r.src
  /\ calls' = calls \o srcCalls
  /\ seen' = <<>>
  /\ status' = "none"
  /\ UNCHANGED <<srcCalls, memVars>>
  /\ UNCHANGED <<cacheVars, idVars, arenaVars, tabVars>>

(* The write path hands out fresh sequence numbers: the batch's header     *)
(* sequence is above every sequence the memtable holds.                    *)
FreshSequence(rep) ==
  Len(rep) >= kHeader => \A i \in 1..Len(adds) : adds[i].seq < Sequence(rep)

(* WriteBatchInternal::InsertInto(&batch, &memtable) *)
InsertInto ==
  /\ destroys = 0
  /\ FreshSequence(rep_)
  /\ \E r \in {InsertIntoBody(rep_, [table |-> table_, adds |-> adds])} :
       /\ table_' = r.mem.table
       /\ adds' = r.mem.adds
       /\ status' = r.status
  /\ seen' = <<>>
  /\ got' = NoGet
  /\ UNCHANGED <<rep_, calls, src_, srcCalls, refs_, destroys, balance>>
  /\ UNCHANGED <<cacheVars, idVars, arenaVars, tabVars>>

(* memtable.Get(LookupKey(key, seq), &value, &s) *)
Get(key, seq) ==
  /\ destroys = 0
  /\ got' = [key |-> key, seq |-> seq,
             result |-> MemTableGet([table |-> table_, adds |-> adds], key, seq)]
  /\ UNCHANGED <<src_, srcCalls, table_, adds, refs_, destroys, balance>>
  /\ UNCHANGED <<cacheVars, wbVars, idVars, arenaVars, tabVars>>

InitMT ==
  /\ CacheNew(0)
  /\ rep_ = ClearBody
  /\ calls = <<>>
  /\ seen = <<>>
  /\ status = "none"
  /\ src_ = ClearBody
  /\ srcCalls = <<>>
  /\ table_ = NewMemTable.table
  /\ adds = NewMemTable.adds
  /\ refs_ = 0
  /\ destroys = 0
  /\ got = NoGet
  /\ balance = 0
  /\ IdNew
  /\ ArenaNew
  /\ TableIdle

(* The client fills the batches first, then replays and reads *)
Filling == adds = <<>> /\ status = "none"

NextMT ==
  \/ \E key \in MTKeys, value \in MTValues : Filling /\ Put(key, value)
  \/ \E key \in MTKeys : Filling /\ Delete(key)
  \/ Filling /\ Clear
  \/ \E seq \in Sequences : Filling /\ WriteSequence(seq)
  \/ \E key \in MTKeys : Filling /\ SrcPut(key, <<2>>)
  \/ \E key \in MTKeys : Filling /\ SrcDelete(key)
  \/ Filling /\ BatchAppend
  \/ Filling /\ InsertInto
  \/ \E key \in MTKeys, seq \in Queries : ~Filling /\ Get(key, seq)

SpecMT == InitMT /\ [][NextMT]_vars

----------------------------------------------------------------------------
(* SpecRaw: a batch whose bytes come from outside (SetContents), iterated  *)
(* through a recording handler and replayed into a memtable.               *)

RawBodies == UNION {[1..n -> RawBytes] : n \in 0..MaxBody}

(* Well-sized contents with header sequence 10, and two that are too short *)
RawContents ==
  {EncodeFixed64(10) \o EncodeFixed32(count) \o body :
     count \in RawCounts, body \in RawBodies}
  \cup {<<>>, [i \in 1..(kHeader - 1) |-> 0]}

(* [rep, ok]: the bytes after the call, and the assert (compiled out under *)
(* NDEBUG, so the assignment happens either way)                           *)
SetContentsBody(contents) ==
  [rep |-> contents, ok |-> Len(contents) >= kHeader]

SetContents(contents) ==
  /\ rep_' = SetContentsBody(contents).rep
  /\ calls' = <<>>
  /\ seen' = <<>>
  /\ status' = "none"
  /\ UNCHANGED <<cacheVars, restVars>>

InitRaw == InitMT

(* The client sets the contents of a fresh batch, once *)
FreshBatch == rep_ = ClearBody /\ status = "none"

NextRaw ==
  \/ FreshBatch /\ \E contents \in RawContents : SetContents(contents)
  \/ Iterate
  \/ InsertInto

SpecRaw == InitRaw /\ [][NextRaw]_vars

----------------------------------------------------------------------------
(* SpecId: threads that call NewId or run an operation of one shard.  The  *)
(* increment of last_id_ is a read and a write, both inside the scope of   *)
(* MutexLock l(&id_mutex_).                                                *)

IdsReturned == {returned[i].id : i \in 1..Len(returned)}

NewIdCalls == Len(returned) + Cardinality({t \in Threads : pc[t] \in {"lock", "read", "write", "unlock"}})

(* A thread enters NewId *)
NewIdCall(t) ==
  /\ pc[t] = "idle"
  /\ NewIdCalls < MaxIds
  /\ pc' = [pc EXCEPT ![t] = "lock"]
  /\ started' = [started EXCEPT ![t] = IdsReturned]
  /\ UNCHANGED <<last_id_, id_mutex_, mutex_, local, returned>>
  /\ UNCHANGED <<cacheVars, wbVars, mtVars, arenaVars, tabVars>>

(* NewId that does not take id_mutex_. *)
NewIdNoLock(t) ==
  /\ pc[t] = "lock"
  /\ pc' = [pc EXCEPT ![t] = "read"]
  /\ UNCHANGED <<last_id_, id_mutex_, mutex_, local, returned, started>>
  /\ UNCHANGED <<cacheVars, wbVars, mtVars, arenaVars, tabVars>>

(* MutexLock l(&id_mutex_) *)
NewIdLock(t) ==
  /\ pc[t] = "lock"
  /\ id_mutex_ = 0
  /\ id_mutex_' = t
  /\ pc' = [pc EXCEPT ![t] = "read"]
  /\ UNCHANGED <<last_id_, mutex_, local, returned, started>>
  /\ UNCHANGED <<cacheVars, wbVars, mtVars, arenaVars, tabVars>>

(* ++(last_id_): the read *)
NewIdRead(t) ==
  /\ pc[t] = "read"
  /\ local' = [local EXCEPT ![t] = last_id_]
  /\ pc' = [pc EXCEPT ![t] = "write"]
  /\ UNCHANGED <<last_id_, id_mutex_, mutex_, returned, started>>
  /\ UNCHANGED <<cacheVars, wbVars, mtVars, arenaVars, tabVars>>

(* ++(last_id_): the write; the new value is the return value *)
NewIdWrite(t) ==
  /\ pc[t] = "write"
  /\ last_id_' = local[t] + 1
  /\ local' = [local EXCEPT ![t] = local[t] + 1]
  /\ pc' = [pc EXCEPT ![t] = "unlock"]
  /\ UNCHANGED <<id_mutex_, mutex_, returned, started>>
  /\ UNCHANGED <<cacheVars, wbVars, mtVars, arenaVars, tabVars>>

(* ~MutexLock and return *)
NewIdReturn(t) ==
  /\ pc[t] = "unlock"
  /\ id_mutex_' = IF id_mutex_ = t THEN 0 ELSE id_mutex_
  /\ returned' = Append(returned, [thread |-> t, id |-> local[t],
                                   before |-> started[t]])
  /\ pc' = [pc EXCEPT ![t] = "idle"]
  /\ UNCHANGED <<last_id_, mutex_, local, started>>
  /\ UNCHANGED <<cacheVars, wbVars, mtVars, arenaVars, tabVars>>

(* A thread enters an operation of shard s: MutexLock l(&mutex_) *)
ShardLock(t, s) ==
  /\ pc[t] = "idle"
  /\ mutex_[s] = 0
  /\ mutex_' = [mutex_ EXCEPT ![s] = t]
  /\ pc' = [pc EXCEPT ![t] = "shard"]
  /\ UNCHANGED <<last_id_, id_mutex_, local, returned, started>>
  /\ UNCHANGED <<cacheVars, wbVars, mtVars, arenaVars, tabVars>>

(* The operation returns: ~MutexLock *)
ShardUnlock(t, s) ==
  /\ pc[t] = "shard"
  /\ mutex_[s] = t
  /\ mutex_' = [mutex_ EXCEPT ![s] = 0]
  /\ pc' = [pc EXCEPT ![t] = "idle"]
  /\ UNCHANGED <<last_id_, id_mutex_, local, returned, started>>
  /\ UNCHANGED <<cacheVars, wbVars, mtVars, arenaVars, tabVars>>

InitId ==
  /\ CacheNew(0)
  /\ WBIdle
  /\ MemTableNew
  /\ IdNew
  /\ ArenaNew
  /\ TableIdle

NextId ==
  \/ \E t \in Threads : NewIdCall(t)
  \/ \E t \in Threads : NewIdLock(t)
  \/ \E t \in Threads : NewIdRead(t)
  \/ \E t \in Threads : NewIdWrite(t)
  \/ \E t \in Threads : NewIdReturn(t)
  \/ \E t \in Threads, s \in Shards : ShardLock(t, s)
  \/ \E t \in Threads, s \in Shards : ShardUnlock(t, s)

SpecId == InitId /\ [][NextId]_vars

----------------------------------------------------------------------------
(* SpecMem: the owners of a memtable take and drop references, add entries *)
(* and read them.  After delete this the object is gone: a later Ref or    *)
(* Unref reads whatever the freed memory holds in place of refs_.          *)

(* [refs_, destroys] *)
MemTableRefBody(M) == [refs_ |-> M.refs_ + 1, destroys |-> M.destroys]

(* Unref that deletes while one reference remains. *)
MemTableUnrefBodyEarly(M) ==
  [refs_ |-> M.refs_ - 1,
   destroys |-> IF M.refs_ - 1 <= 1 THEN M.destroys + 1 ELSE M.destroys]

MemTableUnrefBody(M) ==
  [refs_ |-> M.refs_ - 1,
   destroys |-> IF M.refs_ - 1 <= 0 THEN M.destroys + 1 ELSE M.destroys]

(* What a read of refs_ yields: the field while the object lives, any      *)
(* value once it has been deleted                                          *)
ReadRefs == IF destroys = 0 THEN {refs_} ELSE -1..MaxRefs

(* The state after a call that saw r in refs_: ~MemTable releases the     *)
(* arena and with it the index                                             *)
StoreMemTable(M) ==
  /\ refs_' = M.refs_
  /\ destroys' = M.destroys
  /\ IF M.destroys > destroys
     THEN table_' = <<>> /\ adds' = <<>> /\ got' = NoGet
     ELSE UNCHANGED <<table_, adds, got>>
  /\ UNCHANGED <<src_, srcCalls>>
  /\ UNCHANGED <<cacheVars, wbVars, idVars, arenaVars, tabVars>>

MemTableRef ==
  /\ balance < MaxRefs
  /\ destroys < MaxDestroys
  /\ \E r \in ReadRefs :
       StoreMemTable(MemTableRefBody([refs_ |-> r, destroys |-> destroys]))
  /\ balance' = balance + 1

(* Called only while Refs outnumber Unrefs *)
MemTableUnref ==
  /\ balance > 0
  /\ destroys < MaxDestroys
  /\ \E r \in ReadRefs :
       StoreMemTable(MemTableUnrefBody([refs_ |-> r, destroys |-> destroys]))
  /\ balance' = balance - 1

(* memtable.Add(seq, type, key, value), by a holder of a reference, at a   *)
(* sequence above those the memtable holds                                 *)
Add(seq, type, key, value) ==
  /\ destroys = 0
  /\ refs_ > 0
  /\ Len(adds) < MaxEntries
  /\ \A i \in 1..Len(adds) : adds[i].seq < seq
  /\ type = kTypeDeletion => value = <<>>
  /\ \E M \in {MemTableAdd([table |-> table_, adds |-> adds], seq, type, key, value)} :
       /\ table_' = M.table
       /\ adds' = M.adds
  /\ got' = NoGet
  /\ UNCHANGED <<src_, srcCalls, refs_, destroys, balance>>
  /\ UNCHANGED <<cacheVars, wbVars, idVars, arenaVars, tabVars>>

InitMem == InitId

NextMem ==
  \/ MemTableRef
  \/ MemTableUnref
  \/ \E seq \in Queries, key \in MTKeys : Add(seq, kTypeValue, key, <<1>>)
  \/ \E seq \in Queries, key \in MTKeys : Add(seq, kTypeDeletion, key, <<>>)
  \/ \E key \in MTKeys, seq \in Queries : refs_ > 0 /\ adds # <<>> /\ Get(key, seq)

SpecMem == InitMem /\ [][NextMem]_vars

----------------------------------------------------------------------------
(* Arena, as a value [alloc_ptr_, remaining, blocks_, heap]; each call     *)
(* gives [A, result].  Addresses are numbers; operator new[] hands out     *)
(* fresh, aligned, non-overlapping blocks from heap upwards.               *)

kBlockSize == 4096

(* The alignment of AllocateAligned: the larger of 8 and the pointer size *)
kAlign == 8

CurArena == [alloc_ptr_ |-> alloc_ptr_, remaining |-> alloc_bytes_remaining_,
             blocks_ |-> blocks_, heap |-> heap]

RoundUp(n, a) == ((n + a - 1) \div a) * a

AllocateNewBlock(A, block_bytes) ==
  [A |-> [A EXCEPT !.blocks_ = Append(@, [base |-> A.heap, size |-> block_bytes]),
                   !.heap = A.heap + RoundUp(block_bytes, NewAlign)],
   result |-> A.heap]

AllocateFallback(A, bytes) ==
  IF bytes > kBlockSize \div 4
  THEN AllocateNewBlock(A, bytes)
  ELSE LET b == AllocateNewBlock(A, kBlockSize)
       IN [A |-> [b.A EXCEPT !.alloc_ptr_ = b.result + bytes,
                             !.remaining = kBlockSize - bytes],
           result |-> b.result]

(* Allocate that hands out the current pointer without advancing it. *)
AllocateBodyNoAdvance(A, bytes) ==
  IF bytes <= A.remaining
  THEN [A |-> [A EXCEPT !.remaining = @ - bytes], result |-> A.alloc_ptr_]
  ELSE AllocateFallback(A, bytes)

AllocateBody(A, bytes) ==
  IF bytes <= A.remaining
  THEN [A |-> [A EXCEPT !.alloc_ptr_ = @ + bytes, !.remaining = @ - bytes],
        result |-> A.alloc_ptr_]
  ELSE AllocateFallback(A, bytes)

AllocateAlignedBody(A, bytes) ==
  LET current_mod == A.alloc_ptr_ % kAlign
      slop == IF current_mod = 0 THEN 0 ELSE kAlign - current_mod
      needed == bytes + slop
  IN IF needed <= A.remaining
     THEN [A |-> [A EXCEPT !.alloc_ptr_ = @ + needed, !.remaining = @ - needed],
           result |-> A.alloc_ptr_ + slop]
     ELSE AllocateFallback(A, bytes)

StoreArena(r, bytes, aligned) ==
  /\ alloc_ptr_' = r.A.alloc_ptr_
  /\ alloc_bytes_remaining_' = r.A.remaining
  /\ blocks_' = r.A.blocks_
  /\ heap' = r.A.heap
  /\ allocs' = Append(allocs, [addr |-> r.result, bytes |-> bytes,
                               aligned |-> aligned])
  /\ UNCHANGED <<cacheVars, wbVars, mtVars, idVars, tabVars>>

Allocate(bytes) ==
  /\ Len(allocs) < MaxAllocs
  /\ bytes > 0
  /\ \E r \in {AllocateBody(CurArena, bytes)} : StoreArena(r, bytes, FALSE)

AllocateAligned(bytes) ==
  /\ Len(allocs) < MaxAllocs
  /\ bytes > 0
  /\ \E r \in {AllocateAlignedBody(CurArena, bytes)} : StoreArena(r, bytes, TRUE)

InitArena == InitId

NextArena ==
  \/ \E bytes \in AllocSizes : Allocate(bytes)
  \/ \E bytes \in AllocSizes : AllocateAligned(bytes)

SpecArena == InitArena /\ [][NextArena]_vars

----------------------------------------------------------------------------
(* SpecTable: the HandleTable of a shard on its own.  The owner inserts    *)
(* handles, removes and looks up keys; the table never frees a handle.     *)

(* The handle LRUCache::Insert passes to table_.Insert *)
NewHandle(key) ==
  [key |-> key, hash |-> HashSlice(key), charge |-> 0, in_cache |-> TRUE,
   refs |-> 2, live |-> TRUE]

StoreTable(S, result) ==
  /\ list_' = S.list
  /\ length_' = S.length
  /\ elems_' = S.elems
  /\ mem' = S.mem
  /\ tret' = result
  /\ UNCHANGED lookup_e
  /\ UNCHANGED <<capacity_, usage_, lru_, in_use_, deleted, ok, destroyed,
                 held, order>>
  /\ UNCHANGED <<wbVars, mtVars, idVars, arenaVars>>

(* The owner of the table.  It takes its keys in order: a key it has used, *)
(* or the next one.  After MaxTableHandles handles it goes on with new keys *)
(* only, to make the table grow again.                                      *)
UsedKeys == {mem[h].key : h \in 1..(nextAddr - 1)}

Mixing == nextAddr <= MaxTableHandles + 1

MayTableInsert(key) ==
  /\ key <= Cardinality(UsedKeys) + 1
  /\ nextAddr <= MaxTableHandles + MaxFill
  /\ nextAddr > MaxTableHandles => key \notin UsedKeys

TableInsertCall(key) ==
  /\ MayTableInsert(key)
  /\ \E R \in {TableInsert([Cur EXCEPT !.mem[nextAddr] = NewHandle(key)],
                           nextAddr)} :
       StoreTable(R.S, R.h)
  /\ nextAddr' = nextAddr + 1

TableRemoveCall(key) ==
  /\ Mixing
  /\ \E R \in {TableRemove(Cur, key, HashSlice(key))} : StoreTable(R.S, R.h)
  /\ UNCHANGED nextAddr

TableLookupCall(key) ==
  /\ Mixing
  /\ StoreTable(Cur, TableLookup(Cur, key, HashSlice(key)))
  /\ UNCHANGED nextAddr

InitTable ==
  /\ CacheNew(Scenario.capacity)
  /\ WBIdle
  /\ MemTableNew
  /\ IdNew
  /\ ArenaNew
  /\ TableIdle

NextTable ==
  \/ \E key \in TableKeys : TableInsertCall(key)
  \/ \E key \in TableKeys : TableRemoveCall(key)
  \/ \E key \in TableKeys : TableLookupCall(key)

SpecTable == InitTable /\ [][NextTable]_vars

----------------------------------------------------------------------------
(* SpecConc: the threads of a process call Insert, Lookup, Release, Erase  *)
(* and Prune on one shard.  Each member function starts with              *)
(* MutexLock l(&mutex_) and releases the mutex when it returns.  Lookup    *)
(* is taken in two steps, table_.Lookup and Ref.                           *)

TheShard == 1

(* MutexLock l(&mutex_) that does not wait for the mutex. *)
ConcLockNoWait(t) ==
  /\ pc[t] = "idle"
  /\ mutex_' = [mutex_ EXCEPT ![TheShard] = t]
  /\ pc' = [pc EXCEPT ![t] = "locked"]
  /\ UNCHANGED <<last_id_, id_mutex_, local, returned, started>>
  /\ UNCHANGED <<cacheVars, wbVars, mtVars, arenaVars, tabVars>>

ConcLock(t) ==
  /\ pc[t] = "idle"
  /\ mutex_[TheShard] = 0
  /\ mutex_' = [mutex_ EXCEPT ![TheShard] = t]
  /\ pc' = [pc EXCEPT ![t] = "locked"]
  /\ UNCHANGED <<last_id_, id_mutex_, local, returned, started>>
  /\ UNCHANGED <<cacheVars, wbVars, mtVars, arenaVars, tabVars>>

(* return: ~MutexLock *)
ConcReturn(t) ==
  /\ mutex_' = [mutex_ EXCEPT ![TheShard] = 0]
  /\ pc' = [pc EXCEPT ![t] = "idle"]
  /\ UNCHANGED <<last_id_, id_mutex_, local, returned, started>>
  /\ UNCHANGED <<capacity_, destroyed, wbVars, mtVars, arenaVars, tret>>

ConcInsert(t, key, charge) ==
  /\ pc[t] = "locked"
  /\ ok
  /\ nextAddr <= MaxConcHandles
  /\ Outstanding < MaxHeld
  /\ \E S \in {InsertBody(Cur, nextAddr, key, HashSlice(key), charge)} :
       /\ Store(S)
       /\ held' = [held EXCEPT ![nextAddr] = 1]
       /\ order' = NextOrder(S, held', nullptr)
  /\ nextAddr' = nextAddr + 1
  /\ UNCHANGED lookup_e
  /\ ConcReturn(t)

ConcLookupFind(t, key) ==
  /\ pc[t] = "locked"
  /\ ok
  /\ \E e \in {TableLookup(Cur, key, HashSlice(key))} :
       /\ e # nullptr => Outstanding < MaxHeld
       /\ lookup_e' = [lookup_e EXCEPT ![t] = e]
  /\ pc' = [pc EXCEPT ![t] = "found"]
  /\ UNCHANGED <<last_id_, id_mutex_, mutex_, local, returned, started>>
  /\ UNCHANGED <<cacheVars, wbVars, mtVars, arenaVars, tret>>

ConcLookupRef(t) ==
  /\ pc[t] = "found"
  /\ ok
  /\ \E S \in {IF lookup_e[t] # nullptr THEN Ref(Cur, lookup_e[t]) ELSE Cur} :
       /\ Store(S)
       /\ held' = IF lookup_e[t] # nullptr
                  THEN [held EXCEPT ![lookup_e[t]] = @ + 1] ELSE held
       /\ order' = NextOrder(S, held', nullptr)
  /\ lookup_e' = [lookup_e EXCEPT ![t] = nullptr]
  /\ UNCHANGED nextAddr
  /\ ConcReturn(t)

ConcRelease(t, handle) ==
  /\ pc[t] = "locked"
  /\ ok
  /\ held[handle] > 0
  /\ \E S \in {ReleaseBody(Cur, handle)} :
       /\ Store(S)
       /\ held' = [held EXCEPT ![handle] = @ - 1]
       /\ order' = NextOrder(S, held', handle)
  /\ UNCHANGED <<nextAddr, lookup_e>>
  /\ ConcReturn(t)

ConcErase(t, key) ==
  /\ pc[t] = "locked"
  /\ ok
  /\ \E S \in {EraseBody(Cur, key, HashSlice(key))} :
       /\ Store(S)
       /\ order' = NextOrder(S, held, nullptr)
  /\ UNCHANGED <<nextAddr, held, lookup_e>>
  /\ ConcReturn(t)

ConcPrune(t) ==
  /\ pc[t] = "locked"
  /\ ok
  /\ \E S \in {PruneBody(Cur)} :
       /\ Store(S)
       /\ order' = NextOrder(S, held, nullptr)
  /\ UNCHANGED <<nextAddr, held, lookup_e>>
  /\ ConcReturn(t)

InitConc ==
  /\ \E capacity \in ConcCapacities : CacheNew(capacity)
  /\ WBIdle
  /\ MemTableNew
  /\ IdNew
  /\ ArenaNew
  /\ TableIdle

NextConc ==
  \/ \E t \in Threads : ConcLock(t)
  \/ \E t \in Threads, key \in ConcKeys, charge \in Charges :
       ConcInsert(t, key, charge)
  \/ \E t \in Threads, key \in ConcKeys : ConcLookupFind(t, key)
  \/ \E t \in Threads : ConcLookupRef(t)
  \/ \E t \in Threads, handle \in Addrs : ConcRelease(t, handle)
  \/ \E t \in Threads, key \in ConcKeys : ConcErase(t, key)
  \/ \E t \in Threads : ConcPrune(t)

SpecConc == InitConc /\ [][NextConc]_vars

----------------------------------------------------------------------------
(* Vocabulary of the properties *)

InsertKeys == Keys \cup (1..Scenario.keys)
InsertCharges == Charges \cup {Scenario.charge}

Allocated(h) == h < nextAddr
OnLru(h) == h \in Range(lru_)
OnInUse(h) == h \in Range(in_use_)
Find(key) == TableLookup(Cur, key, HashSlice(key))
TableEmpty == \A b \in DOMAIN list_ : list_[b] = <<>>

(* lru_ non-empty => usage_ <= capacity_ *)
Fits == lru_ # <<>> => usage_ <= capacity_

(* A step is a given call: what only that call does to the bookkeeping,   *)
(* then the call itself.                                                   *)
InsertStep(key, charge) ==
  /\ nextAddr' = nextAddr + 1
  /\ mem'[nextAddr].key = key
  /\ mem'[nextAddr].charge = charge
  /\ Insert(key, charge)

ReleaseStep(h) ==
  /\ held[h] > 0
  /\ held'[h] = held[h] - 1
  /\ Release(h)

EraseStep(key) ==
  /\ held' = held
  /\ nextAddr' = nextAddr
  /\ destroyed' = destroyed
  /\ Erase(key)

PruneStep ==
  /\ held' = held
  /\ nextAddr' = nextAddr
  /\ destroyed' = destroyed
  /\ Prune

----------------------------------------------------------------------------
(* C1: in one shard, for every live handle, membership of the two lists is *)
(* determined by (in_cache, refs): on in_use_ iff in_cache and refs >= 2,  *)
(* on lru_ iff in_cache and refs = 1, on neither iff not in_cache; never   *)
(* on both, at most once on a list, and refs >= 1.                         *)
C1_ListMembership ==
  /\ \A h \in Addrs : mem[h].live =>
       /\ mem[h].refs >= 1
       /\ OnInUse(h) <=> (mem[h].in_cache /\ mem[h].refs >= 2)
       /\ OnLru(h) <=> (mem[h].in_cache /\ mem[h].refs = 1)
       /\ (~OnInUse(h) /\ ~OnLru(h)) <=> ~mem[h].in_cache
       /\ ~(OnInUse(h) /\ OnLru(h))
  /\ Cardinality(Range(lru_)) = Len(lru_)
  /\ Cardinality(Range(in_use_)) = Len(in_use_)

(* One entry on each list and one erased entry a client still holds. *)
C1_Witness ==
  /\ ~destroyed
  /\ \E a, b, c \in Addrs :
       /\ mem[a].live /\ mem[b].live /\ mem[c].live
       /\ OnInUse(a) /\ mem[a].refs = 2
       /\ OnLru(b)
       /\ ~mem[c].in_cache /\ held[c] = 1

(* C2: a handle returned by Insert or Lookup stays valid (entry not freed, *)
(* deleter not invoked) until the client releases it, whatever else is     *)
(* called in between.                                                      *)
C2_HandleValid ==
  \A h \in Addrs : held[h] > 0 => (mem[h].live /\ deleted[h] = 0)

(* A held entry displaced by a duplicate key, whose successor is cached. *)
C2_Witness ==
  \E h, n \in Addrs :
    /\ h # n
    /\ held[h] > 0 /\ mem[h].live /\ ~mem[h].in_cache
    /\ mem[n].live /\ mem[n].in_cache /\ mem[n].key = mem[h].key

(* C3: the deleter of an entry runs at most once, and it has run exactly   *)
(* for the entries that are no longer in_cache and that no client holds:   *)
(* these are the entries that have been freed.                             *)
C3_DeleterOnce ==
  \A h \in Addrs :
    /\ deleted[h] <= 1
    /\ deleted[h] = 1 <=> (Allocated(h) /\ ~mem[h].in_cache /\ held[h] = 0)
    /\ deleted[h] = 1 <=> (Allocated(h) /\ ~mem[h].live)

(* Two entries deleted, one of them by the destruction of the shard, and a *)
(* third that a client still holds and that is therefore not deleted.      *)
C3_Witness ==
  /\ destroyed
  /\ lru_ # <<>>
  /\ \E a, b, c \in Addrs :
       /\ a \notin Range(lru_) /\ deleted[a] = 1
       /\ b \in Range(lru_) /\ deleted[b] = 1
       /\ held[c] = 1 /\ deleted[c] = 0

(* C4: when an Insert returns, lru_ non-empty implies usage_ <= capacity_. *)
C4_InsertFits ==
  [][\A key \in InsertKeys, charge \in InsertCharges :
       InsertStep(key, charge) => Fits']_vars

(* The third Insert has just evicted the oldest of two lru_ entries. *)
C4_Witness ==
  /\ nextAddr = 4
  /\ in_use_ = <<3>> /\ held[3] = 1 /\ mem[3].charge = 1
  /\ lru_ = <<2>>
  /\ deleted[1] = 1
  /\ usage_ = capacity_

(* C5, as claimed: in every state, usage_ <= capacity_ unless exactly one  *)
(* entry is on in_use_ and lru_ is empty.                                  *)
C5_Original ==
  ~destroyed => (usage_ > capacity_ => (Len(in_use_) = 1 /\ lru_ = <<>>))

(* C5, amended: every Insert returns with usage_ <= capacity_ unless lru_  *)
(* is empty (in_use_ then holds one entry or several), and Lookup, Erase   *)
(* and Prune keep that; only Release, which never evicts, can leave        *)
(* usage_ > capacity_ with an entry on lru_; only Insert raises usage_.    *)
C5_Amended ==
  [][/\ \A key \in InsertKeys, charge \in InsertCharges :
          InsertStep(key, charge) => Fits'
     /\ (Fits /\ ~Fits') => \E h \in Addrs : ReleaseStep(h)
     /\ usage_' > usage_ => \E key \in InsertKeys, charge \in InsertCharges :
                              InsertStep(key, charge)]_vars

(* Over capacity with two entries on in_use_ and nothing to evict. *)
C5_Witness ==
  /\ ~destroyed
  /\ usage_ > capacity_
  /\ Len(in_use_) = 2
  /\ lru_ = <<>>

(* C6: lru_ lists the unreferenced cached entries by the time each last    *)
(* became unreferenced, oldest first; the capacity eviction of Insert      *)
(* takes its victims from the oldest end (an lru_ entry is evicted only if *)
(* every older lru_ entry has left the cache too); and scenario 5 ends     *)
(* with lru_ = B,C,D,E,F, deleter(A) called once and usage_ = 10.          *)
ScenarioDone ==
  /\ capacity_ = Scenario.capacity
  /\ nextAddr = Scenario.keys + 1
  /\ Outstanding = 0

C6_LruOldestFirst ==
  /\ [](~destroyed => lru_ = order)
  /\ [](ScenarioDone =>
          /\ lru_ = <<2, 3, 4, 5, 6>>
          /\ \A h \in 2..6 : mem[h].key = h /\ deleted[h] = 0
          /\ deleted[1] = 1
          /\ usage_ = 10)
  /\ [][\A key \in InsertKeys, charge \in InsertCharges :
          InsertStep(key, charge) =>
            \A i, j \in 1..Len(lru_) :
              (/\ i < j
               /\ mem[lru_[j]].key # key
               /\ ~mem'[lru_[j]].in_cache) => ~mem'[lru_[i]].in_cache]_vars

C6_Witness ==
  /\ ScenarioDone
  /\ lru_ = <<2, 3, 4, 5, 6>>
  /\ deleted[1] = 1

(* C7: neither the capacity eviction of Insert nor Prune removes an entry  *)
(* on which a client holds an unreleased handle: it stays in_cache, Lookup *)
(* still finds it and its deleter is not called, even over capacity.       *)
C7_HeldNotEvicted ==
  [][\A h \in Addrs :
       (/\ held[h] > 0
        /\ mem[h].in_cache
        /\ \/ PruneStep
           \/ \E key \in InsertKeys \ {mem[h].key}, charge \in InsertCharges :
                InsertStep(key, charge))
       => /\ mem'[h].live
          /\ mem'[h].in_cache
          /\ TableLookup(Cur', mem[h].key, mem[h].hash) = h
          /\ deleted'[h] = 0]_vars

(* Scenario 6: capacity 2, A kept, B and C inserted and released: B is the *)
(* victim, A is still cached and held.                                     *)
C7_Witness ==
  /\ capacity_ = 2
  /\ nextAddr = 4
  /\ held = [a \in Addrs |-> IF a = 1 THEN 1 ELSE 0]
  /\ mem[1].in_cache /\ in_use_ = <<1>> /\ mem[1].charge = 1
  /\ deleted[2] = 1
  /\ lru_ = <<3>> /\ mem[3].charge = 1 /\ mem[3].key # mem[1].key
  /\ usage_ = 2

(* C8: after Erase(key), Lookup(key) misses until a later Insert(key); the *)
(* erased entry leaves its list, loses in_cache and its charge leaves      *)
(* usage_ at once; its deleter runs at once if no client holds it, and     *)
(* else at the release of the last handle; Erase of a key that is not      *)
(* cached changes nothing.                                                 *)
C8_Erase ==
  [][/\ \A key \in Keys : EraseStep(key) =>
          \A e \in {Find(key)} :
             /\ Find(key)' = nullptr
             /\ e = nullptr =>
                  UNCHANGED <<usage_, lru_, in_use_, list_, length_, elems_,
                              mem, deleted>>
             /\ e # nullptr =>
                  /\ e \notin Range(lru_') \cup Range(in_use_')
                  /\ ~mem'[e].in_cache
                  /\ usage_' = usage_ - mem[e].charge
                  /\ deleted'[e] = (IF held[e] = 0 THEN 1 ELSE 0)
                  /\ mem'[e].live <=> held[e] > 0
     /\ \A key \in Keys :
          (Find(key) = nullptr /\ Find(key)' # nullptr) =>
             \E charge \in InsertCharges : InsertStep(key, charge)
     /\ \A h \in Addrs :
          (ReleaseStep(h) /\ ~mem[h].in_cache) =>
             deleted'[h] = (IF held[h] = 1 THEN 1 ELSE 0)]_vars

(* An entry erased while a client held two handles on it, one released. *)
C8_Witness ==
  /\ ~destroyed
  /\ \E h \in Addrs :
       /\ mem[h].live /\ ~mem[h].in_cache /\ capacity_ > 0
       /\ held[h] = 1 /\ mem[h].refs = 1
       /\ mem[h].charge > 0
       /\ Find(mem[h].key) = nullptr
       /\ usage_ = 0
       /\ nextAddr = 2

(* C9: with capacity_ = 0, Insert returns a handle with refs = 1 and       *)
(* in_cache = false and leaves the table, both lists and usage_ as they    *)
(* were: Lookup of the key misses, the total charge stays 0, and the one   *)
(* Release of the handle runs the deleter.                                 *)
C9_CapacityZero ==
  /\ [](capacity_ = 0 =>
          /\ usage_ = 0 /\ lru_ = <<>> /\ in_use_ = <<>>
          /\ TableEmpty /\ elems_ = 0
          /\ \A key \in Keys : Find(key) = nullptr)
  /\ [][capacity_ = 0 =>
          /\ \A key \in InsertKeys, charge \in InsertCharges :
               InsertStep(key, charge) =>
                 /\ mem'[nextAddr] =
                      [key |-> key, hash |-> HashSlice(key), charge |-> charge,
                       in_cache |-> FALSE, refs |-> 1, live |-> TRUE]
                 /\ held'[nextAddr] = 1
                 /\ UNCHANGED <<usage_, lru_, in_use_, list_, length_, elems_>>
          /\ \A h \in Addrs : ReleaseStep(h) => deleted'[h] = 1]_vars

(* Caching off: one entry released and deleted, one still held. *)
C9_Witness ==
  /\ capacity_ = 0
  /\ \E a, b \in Addrs :
       /\ deleted[a] = 1
       /\ mem[b].live /\ mem[b].refs = 1 /\ ~mem[b].in_cache /\ held[b] = 1
       /\ mem[b].charge > 0

(* C10: write-batch round trip: after any sequence of Put(key, value) and  *)
(* Delete(key) calls on a cleared batch, Iterate returns OK and hands the  *)
(* handler the same operations with the same keys and values in the same   *)
(* order, and the count of the header is the number of calls.              *)
C10_RoundTrip ==
  /\ Count(rep_) = Len(calls)
  /\ status # "none" => (status = "OK" /\ seen = calls)

(* A Put with a long key and an empty value, then a Delete, read back. *)
C10_Witness ==
  /\ status = "OK"
  /\ calls = <<PutCall(LongSlice, <<>>), DeleteCall(<<1, 0>>)>>
  /\ seen = calls

----------------------------------------------------------------------------
(* C11: for well-formed batches B1 (rep_) and B2 (src_), after             *)
(* B1.Append(B2) iterating B1 is OK and yields the operations of the old   *)
(* B1 followed by those of B2, Count(B1) is the sum of the two counts,     *)
(* B1's header sequence is unchanged and B2 is unchanged.                  *)
C11_Append ==
  [][BatchAppend =>
       /\ IterateBody(rep_').status = "OK"
       /\ IterateBody(rep_').seen = IterateBody(rep_).seen \o IterateBody(src_).seen
       /\ IterateBody(rep_).seen = calls
       /\ IterateBody(src_).seen = srcCalls
       /\ Count(rep_') = Count(rep_) + Count(src_)
       /\ Sequence(rep_') = Sequence(rep_)
       /\ src_' = src_]_vars

(* Two non-empty batches with different header sequences were appended *)
C11_Witness ==
  /\ Len(calls) > MaxRecords
  /\ srcCalls # <<>>
  /\ Count(rep_) = Len(calls)
  /\ Sequence(rep_) # Sequence(src_)

(* The Add call the record of a Put or Delete call must produce at seq *)
AddOf(call, seq) ==
  [key |-> call.key, seq |-> seq,
   type |-> IF call.op = "Put" THEN kTypeValue ELSE kTypeDeletion,
   value |-> IF call.op = "Put" THEN call.value ELSE <<>>]

(* C12: replaying a well-formed batch with header sequence S into a        *)
(* memtable returns OK and calls Add once per record, in record order,     *)
(* with sequences S, S+1, ..., S+Count-1, type PUT for Put records and DEL  *)
(* with an empty value for Delete records.                                 *)
C12_ReplaySequences ==
  status # "none" =>
    /\ status = "OK"
    /\ Len(adds) = Count(rep_)
    /\ Len(adds) = Len(calls)
    /\ \A i \in 1..Len(adds) : adds[i] = AddOf(calls[i], Sequence(rep_) + i - 1)

(* A replay at sequence 10 of three records whose second is a Delete *)
C12_Witness ==
  /\ status = "OK"
  /\ Sequence(rep_) = 10
  /\ Len(adds) = 3
  /\ adds[2].type = kTypeDeletion
  /\ adds[3].seq = 12

(* The entries for key at or below seq, as positions of adds *)
Visible(key, seq) ==
  {i \in 1..Len(adds) : adds[i].key = key /\ adds[i].seq <= seq}

(* spec.md section 8, scenario 1: put k v1, delete k, put k v2 *)
ScenarioOne ==
  /\ calls = <<PutCall(<<107>>, <<1>>), DeleteCall(<<107>>),
               PutCall(<<107>>, <<2>>)>>
  /\ Sequence(rep_) = 10
  /\ status = "OK"
  /\ got # NoGet
  /\ got.key = <<107>>

(* C13: Get with the lookup key (k, Q) resolves to the entry of k with the *)
(* largest sequence <= Q: the value if it is a PUT, NotFound as a hit if   *)
(* it is a DEL, a miss if k has no entry at or below Q.  After replaying   *)
(* [put k v1, delete k, put k v2] at sequence 10: Q=13 gives v2, Q=11      *)
(* gives NotFound, Q=10 gives v1.                                          *)
C13_GetNewestAtOrBelow ==
  /\ got # NoGet =>
       IF Visible(got.key, got.seq) = {}
       THEN ~got.result.hit
       ELSE \E i \in Visible(got.key, got.seq) :
              /\ \A j \in Visible(got.key, got.seq) : adds[j].seq <= adds[i].seq
              /\ got.result.hit
              /\ adds[i].type = kTypeValue =>
                   (got.result.status = "OK" /\ got.result.value = adds[i].value)
              /\ adds[i].type = kTypeDeletion => got.result.status = "NotFound"
  /\ ScenarioOne =>
       /\ got.seq = 13 => (got.result.hit /\ got.result.status = "OK"
                           /\ got.result.value = <<2>>)
       /\ got.seq = 11 => (got.result.hit /\ got.result.status = "NotFound")
       /\ got.seq = 10 => (got.result.hit /\ got.result.status = "OK"
                           /\ got.result.value = <<1>>)
       /\ got.seq = 9 => ~got.result.hit

(* Scenario 1, read at Q = 11: the delete at 11 wins over the put at 10 *)
C13_Witness ==
  /\ ScenarioOne
  /\ got.seq = 11
  /\ got.result.status = "NotFound"
  /\ Len(table_) = 3

----------------------------------------------------------------------------
(* The record grammar of the batch format, stated on its own:              *)
(*   record := tag:u8 varstring(key) [varstring(value) if tag = 1]         *)
(*   varstring := varint32(len) bytes[len]                                 *)

(* The value of the varint32 made of the first n bytes: seven bits each,   *)
(* low bits first                                                          *)
RECURSIVE VarintValue(_, _)
VarintValue(bytes, n) ==
  IF n = 0 THEN 0
  ELSE (bytes[1] % 128) + 128 * VarintValue(Tail(bytes), n - 1)

(* The varstrings bytes starts with: [slice, len] with len the bytes used *)
VarStrings(bytes) ==
  {[slice |-> SubSeq(bytes, n + 1, n + VarintValue(bytes, n)),
    len |-> n + VarintValue(bytes, n)] :
     n \in {m \in 1..5 :
              /\ m <= Len(bytes)
              /\ bytes[m] < 128
              /\ \A i \in 1..(m - 1) : bytes[i] >= 128
              /\ m + VarintValue(bytes, m) <= Len(bytes)}}

(* The records bytes starts with: [call, len] *)
Records(bytes) ==
  IF bytes = <<>> THEN {}
  ELSE LET rest == Tail(bytes)
       IN IF Head(bytes) = kTypeValue
          THEN {[call |-> PutCall(k.slice, v.slice), len |-> 1 + k.len + v.len] :
                  <<k, v>> \in
                    {<<k, v>> \in
                       VarStrings(rest) \X
                         UNION {VarStrings(SubSeq(rest, k2.len + 1, Len(rest))) :
                                  k2 \in VarStrings(rest)} :
                       v \in VarStrings(SubSeq(rest, k.len + 1, Len(rest)))}}
          ELSE IF Head(bytes) = kTypeDeletion
          THEN {[call |-> DeleteCall(k.slice), len |-> 1 + k.len] :
                  k \in VarStrings(rest)}
          ELSE {}

(* The longest run of well-formed records bytes starts with: [calls, rest] *)
RECURSIVE RecordPrefix(_)
RecordPrefix(bytes) ==
  IF Records(bytes) = {} THEN [calls |-> <<>>, rest |-> bytes]
  ELSE LET r == CHOOSE x \in Records(bytes) : TRUE
           p == RecordPrefix(SubSeq(bytes, r.len + 1, Len(bytes)))
       IN [calls |-> <<r.call>> \o p.calls, rest |-> p.rest]

Body(rep) == SubSeq(rep, kHeader + 1, Len(rep))

WellFormed(rep) ==
  /\ Len(rep) >= kHeader
  /\ RecordPrefix(Body(rep)).rest = <<>>
  /\ Count(rep) = Len(RecordPrefix(Body(rep)).calls)

Corruptions ==
  {"Corruption: malformed WriteBatch (too small)",
   "Corruption: bad WriteBatch Put",
   "Corruption: bad WriteBatch Delete",
   "Corruption: unknown WriteBatch tag",
   "Corruption: WriteBatch has wrong count"}

(* spec.md section 8, scenario 2: count = 2 and a single PUT record *)
ScenarioTwo ==
  rep_ = EncodeFixed64(10) \o EncodeFixed32(2) \o <<1, 1, 2, 1, 2>>

(* C14: Iterate returns OK exactly when the bytes after the 12-byte header *)
(* parse completely as well-formed PUT/DEL records and the header count    *)
(* equals the number of records; otherwise it returns one of the five      *)
(* Corruption statuses: too small for a buffer under 12 bytes, unknown tag *)
(* / bad Put / bad Delete at the first record that does not parse, wrong   *)
(* count when all parse; count = 2 with a single PUT gives wrong count.    *)
C14_IterateStatus ==
  status # "none" =>
    /\ status = "OK" <=> WellFormed(rep_)
    /\ status # "OK" => status \in Corruptions
    /\ status = "Corruption: malformed WriteBatch (too small)"
         <=> Len(rep_) < kHeader
    /\ Len(rep_) >= kHeader =>
         LET p == RecordPrefix(Body(rep_))
         IN /\ status = "Corruption: WriteBatch has wrong count"
                 <=> (p.rest = <<>> /\ Count(rep_) # Len(p.calls))
            /\ status = "Corruption: unknown WriteBatch tag"
                 <=> (p.rest # <<>> /\ Head(p.rest) \notin {kTypeValue, kTypeDeletion})
            /\ status = "Corruption: bad WriteBatch Put"
                 <=> (p.rest # <<>> /\ Head(p.rest) = kTypeValue)
            /\ status = "Corruption: bad WriteBatch Delete"
                 <=> (p.rest # <<>> /\ Head(p.rest) = kTypeDeletion)
    /\ ScenarioTwo => status = "Corruption: WriteBatch has wrong count"

(* Scenario 2 was iterated *)
C14_Witness ==
  /\ ScenarioTwo
  /\ status = "Corruption: WriteBatch has wrong count"
  /\ Len(seen) = 1

----------------------------------------------------------------------------
(* C15 as claimed: when replaying a batch into a memtable fails with a     *)
(* Corruption error, none of the batch's records have been added to the    *)
(* memtable.                                                               *)
C15_Original ==
  [][(InsertInto /\ status' \in Corruptions) => adds' = adds]_vars

(* The records of rep that parse before the first failure *)
ParsedRecords(rep) ==
  IF Len(rep) < kHeader THEN <<>> ELSE RecordPrefix(Body(rep)).calls

(* C15 as amended: a replay that fails with a Corruption error stops at    *)
(* the failure, but the records parsed before it have been added to the    *)
(* memtable, in order, at sequences S, S+1, ..., and stay there; no later  *)
(* record is added.  The memtable is untouched only when the batch is too   *)
(* small or fails at its first record.                                     *)
C15_Amended ==
  [][InsertInto =>
       /\ status' \in Corruptions \cup {"OK"}
       /\ adds' = adds \o [i \in 1..Len(ParsedRecords(rep_)) |->
                             AddOf(ParsedRecords(rep_)[i], Sequence(rep_) + i - 1)]
       /\ Len(table_') = Len(adds')
       /\ \A i \in 1..Len(adds') : \E j \in 1..Len(table_') : table_'[j] = adds'[i]
       /\ (status' \in Corruptions /\ adds' = adds) =>
            (Len(rep_) < kHeader \/ Records(Body(rep_)) = {})]_vars

(* Scenario 2 was replayed: Corruption, and its PUT is in the memtable *)
C15_Witness ==
  /\ ScenarioTwo
  /\ status = "Corruption: WriteBatch has wrong count"
  /\ seen = <<>>
  /\ Len(adds) = 1
  /\ table_ = <<[key |-> <<2>>, seq |-> 10, type |-> kTypeValue, value |-> <<2>>]>>

----------------------------------------------------------------------------
InNewId(t) == pc[t] \in {"lock", "read", "write", "unlock"}

(* C16: the ids NewId returns are 1, 2, ... without repetition under any   *)
(* interleaving of the threads: no two calls return the same id, a call    *)
(* that starts after another has returned gets a larger id, and a thread   *)
(* in NewId holds id_mutex_ at most, never a shard mutex, and leaves the   *)
(* shard mutexes alone.                                                    *)
C16_NewId ==
  [][/\ \A i, j \in 1..Len(returned') :
          i # j => returned'[i].id # returned'[j].id
     /\ \A i \in 1..Len(returned') :
          /\ returned'[i].id >= 1
          /\ returned'[i].id <= last_id_'
          /\ \A id \in returned'[i].before : id < returned'[i].id
     /\ IdsReturned' \cup {local'[t] : t \in {u \in Threads : pc'[u] = "unlock"}}
          = 1..last_id_'
     /\ \A t \in Threads : InNewId(t) =>
          /\ \A s \in Shards : mutex_[s] # t
          /\ pc'[t] # pc[t] => mutex_' = mutex_]_vars

(* Two threads were in NewId at once, while a third party held a shard     *)
(* mutex or not, and both calls have returned; so has a later call.        *)
C16_Witness ==
  /\ Len(returned) = MaxIds
  /\ returned[2].before = {}
  /\ returned[1].thread # returned[2].thread
  /\ returned[3].before # {}

----------------------------------------------------------------------------
----------------------------------------------------------------------------
(* The bytes of an allocation, and those of a block *)
BytesOf(a) == a.addr..(a.addr + a.bytes - 1)
BlockBytes(b) == b.base..(b.base + b.size - 1)

(* C18: for any sequence of Allocate / AllocateAligned calls with n > 0 on *)
(* one arena, the returned ranges of n bytes are pairwise disjoint and     *)
(* each lies inside one block of the arena; an Allocate that fits in the   *)
(* current block's remaining space is served at the current pointer, which *)
(* advances by n while the remaining count drops by n (AllocateAligned     *)
(* first skips the padding up to the alignment, when request and padding   *)
(* fit); every AllocateAligned result is a multiple of max(8, pointer      *)
(* size).                                                                  *)
C18_ArenaDisjoint ==
  [][/\ \A i, j \in 1..Len(allocs') :
          i # j => BytesOf(allocs'[i]) \cap BytesOf(allocs'[j]) = {}
     /\ \A i \in 1..Len(allocs') :
          /\ \E k \in 1..Len(blocks_') :
               /\ allocs'[i].addr >= blocks_'[k].base
               /\ allocs'[i].addr + allocs'[i].bytes
                    <= blocks_'[k].base + blocks_'[k].size
          /\ allocs'[i].aligned => allocs'[i].addr % kAlign = 0
     /\ Len(allocs') = Len(allocs) + 1 =>
          LET a == allocs'[Len(allocs')]
              pad == (kAlign - (alloc_ptr_ % kAlign)) % kAlign
          IN /\ (~a.aligned /\ a.bytes <= alloc_bytes_remaining_) =>
                  /\ a.addr = alloc_ptr_
                  /\ alloc_ptr_' = alloc_ptr_ + a.bytes
                  /\ alloc_bytes_remaining_' = alloc_bytes_remaining_ - a.bytes
             /\ (a.aligned /\ a.bytes + pad <= alloc_bytes_remaining_) =>
                  /\ a.addr = alloc_ptr_ + pad
                  /\ alloc_ptr_' = a.addr + a.bytes
                  /\ alloc_bytes_remaining_' = alloc_bytes_remaining_ - a.bytes - pad]_vars

(* An unaligned allocation, then an aligned one served from the same block *)
(* after padding, then one that got a block of its own                     *)
C18_Witness ==
  /\ Len(allocs) = 3
  /\ ~allocs[1].aligned /\ allocs[1].bytes = 3
  /\ allocs[2].aligned /\ allocs[2].addr = allocs[1].addr + kAlign
  /\ allocs[3].bytes = 5000
  /\ Len(blocks_) = 2

----------------------------------------------------------------------------
Cached(h) == mem[h].live /\ mem[h].in_cache

LookupStep(key) ==
  /\ nextAddr' = nextAddr
  /\ destroyed' = destroyed
  /\ Lookup(key)

(* C19: while the shard lives, usage_ is the sum of the charges of the     *)
(* entries that are in_cache, which are the entries on lru_ or in_use_;    *)
(* every step changes usage_ by the charges of the entries that entered    *)
(* the cache minus the charges of those that left it (eviction, Erase,     *)
(* Prune, displacement), each once; Lookup and Release leave usage_ alone. *)
C19_UsageIsSum ==
  [][~destroyed' =>
       /\ Range(lru_') \cup Range(in_use_') = {h \in Addrs : Cached(h)'}
       /\ Range(lru_') \cap Range(in_use_') = {}
       /\ Len(lru_') + Len(in_use_') = Cardinality({h \in Addrs : Cached(h)'})
       /\ usage_' = SumOver([h \in Addrs |-> mem'[h].charge],
                            {h \in Addrs : Cached(h)'})
       /\ usage_' = usage_
                    + SumOver([h \in Addrs |-> mem'[h].charge],
                              {h \in Addrs : Cached(h)' /\ ~Cached(h)})
                    - SumOver([h \in Addrs |-> mem[h].charge],
                              {h \in Addrs : Cached(h) /\ ~Cached(h)'})
       /\ \A h \in Addrs : ReleaseStep(h) => usage_' = usage_
       /\ \A key \in Keys : LookupStep(key) => usage_' = usage_]_vars

(* Entries with charge on both lists after another entry with charge was   *)
(* removed and freed                                                       *)
C19_Witness ==
  /\ ~destroyed
  /\ usage_ = 2
  /\ \E a \in Range(lru_) : mem[a].charge = 1
  /\ \E b \in Range(in_use_) : mem[b].charge = 1
  /\ \E c \in Addrs : Allocated(c) /\ deleted[c] = 1

(* C20: an Insert, into a shard with capacity_ > 0, of a key that is       *)
(* cached displaces the old entry: Lookup(key) then finds the new entry,   *)
(* the old one is on neither list with in_cache false, usage_ has changed  *)
(* by new charge - old charge (less the charges of what the eviction loop  *)
(* removed), and the old entry's deleter has run once if no client held it *)
(* and else runs at the release of the last handle on it.                  *)
C20_Displace ==
  [][/\ \A key \in InsertKeys, charge \in InsertCharges :
          (capacity_ > 0 /\ Find(key) # nullptr /\ InsertStep(key, charge)) =>
             \A old \in {Find(key)} :
                /\ Find(key)' = nextAddr
                /\ mem'[nextAddr].live /\ mem'[nextAddr].in_cache
                /\ old \notin Range(lru_') \cup Range(in_use_')
                /\ ~mem'[old].in_cache
                /\ usage_' = usage_ + charge - mem[old].charge
                               - SumOver([h \in Addrs |-> mem[h].charge],
                                         {h \in Addrs \ {old} : Cached(h) /\ ~Cached(h)'})
                /\ deleted'[old] = (IF held[old] = 0 THEN 1 ELSE 0)
                /\ mem'[old].live <=> held[old] > 0
     /\ \A h \in Addrs :
          /\ deleted'[h] <= 1
          /\ (ReleaseStep(h) /\ ~mem[h].in_cache /\ held[h] = 1) =>
               (deleted[h] = 0 /\ deleted'[h] = 1)]_vars

(* A displaced entry a client still holds, next to its replacement *)
C20_Witness ==
  /\ capacity_ > 0
  /\ \E old, new \in Addrs :
       /\ old < new
       /\ mem[old].live /\ mem[new].live
       /\ mem[old].key = mem[new].key
       /\ ~mem[old].in_cache /\ held[old] > 0 /\ deleted[old] = 0
       /\ mem[new].in_cache /\ Find(mem[new].key) = new
       /\ mem[old].charge # mem[new].charge

----------------------------------------------------------------------------
(* Vocabulary of the HandleTable properties *)

Bucket(h) == {b \in DOMAIN list_ : h \in Range(list_[b])}
InTable(h) == Bucket(h) # {}
TableHandles == {h \in Addrs : InTable(h)}
SameKey(h, key) == mem[h].key = key /\ mem[h].hash = HashSlice(key)

TableInsertStep(key) ==
  /\ nextAddr' = nextAddr + 1
  /\ mem'[nextAddr].key = key
  /\ TableInsertCall(key)

(* C21: HandleTable::Insert of a handle whose (key, hash) is that of a     *)
(* handle in the table returns that handle, puts the new one at its chain  *)
(* position, leaves elems_ as it was and leaves every other handle of the  *)
(* table reachable by its key; Insert of a key the table does not hold     *)
(* returns null and adds exactly one to elems_, the other handles staying  *)
(* reachable.                                                              *)
C21_TableInsert ==
  [][\A key \in IF nextAddr' = nextAddr + 1 THEN {mem'[nextAddr].key} ELSE {} :
       TableInsertStep(key) =>
         LET prior == {h \in TableHandles : SameKey(h, key)}
             others == TableHandles \ prior
         IN /\ \A h \in others : Find(mem[h].key) = h
            /\ \A h \in others : \E k \in {mem[h].key} : Find(k)' = h
            /\ Find(key)' = nextAddr
            /\ IF prior # {}
               THEN /\ prior = {tret'}
                    /\ elems_' = elems_
                    /\ length_' = length_
                    /\ \A b \in DOMAIN list_ : \A i \in 1..Len(list_[b]) :
                         list_'[b][i] = (IF list_[b][i] = tret' THEN nextAddr
                                         ELSE list_[b][i])
                    /\ \A b \in DOMAIN list_ : Len(list_'[b]) = Len(list_[b])
               ELSE /\ tret' = nullptr
                    /\ elems_' = elems_ + 1
                    /\ TableHandles' = TableHandles \cup {nextAddr}]_vars

(* A handle put inside a chain in place of the one Insert returned *)
C21_Witness ==
  \E b \in DOMAIN list_ : \E i \in 1..Len(list_[b]) :
    /\ 1 < i /\ i < Len(list_[b])
    /\ tret # nullptr
    /\ ~InTable(tret)
    /\ mem[list_[b][i]].key = mem[tret].key
    /\ list_[b][i] = nextAddr - 1

(* C22: after every HandleTable Insert or Remove, length_ is a power of   *)
(* two >= 4 (4 at first) and elems_ <= length_; the table is resized only  *)
(* by an Insert that makes elems_ exceed length_, and the resize keeps the *)
(* handles of the table (with the one just inserted), each in bucket       *)
(* hash & (length_ - 1), so that every key found before is found after.    *)
RECURSIVE PowerOfTwo(_)
PowerOfTwo(n) == n = 1 \/ (n > 1 /\ n % 2 = 0 /\ PowerOfTwo(n \div 2))

TableShape ==
  /\ length_ >= 4
  /\ PowerOfTwo(length_)
  /\ DOMAIN list_ = 0..(length_ - 1)
  /\ elems_ <= length_
  /\ elems_ = Cardinality(TableHandles)
  /\ \A h \in TableHandles : Bucket(h) = {BitAnd(mem[h].hash, length_ - 1)}

Resized ==
  /\ elems_ + 1 > length_
  /\ elems_' = elems_ + 1
  /\ nextAddr' = nextAddr + 1
  /\ \E key \in {mem'[nextAddr].key} : TableInsertStep(key) /\ Find(key) = nullptr
  /\ TableHandles' = TableHandles \cup {nextAddr}
  /\ \A k \in TableKeys : Find(k) # nullptr => Find(k)' = Find(k)

C22_Resize ==
  /\ length_ = 4
  /\ []TableShape
  /\ [][/\ length_' # length_ => Resized
        /\ elems_' > length_ => length_' # length_]_vars

(* The table after its second resize, two handles sharing a bucket that   *)
(* the first table did not have                                            *)
C22_Witness ==
  /\ length_ = 16
  /\ \E b \in DOMAIN list_ : b >= 4 /\ Len(list_[b]) >= 2

----------------------------------------------------------------------------
(* Entries the step takes out of the cache *)
Uncached == {h \in Addrs : Cached(h) /\ ~(mem'[h].live /\ mem'[h].in_cache)}

(* C23, as claimed: an Insert with charge 0 of a key that is not cached    *)
(* removes no entry from the cache, whatever the state of the shard.       *)
C23_Original ==
  [][\A key \in InsertKeys :
       (Find(key) = nullptr /\ InsertStep(key, 0)) => Uncached = {}]_vars

(* C23, amended: an Insert with charge 0 of a key that is not cached       *)
(* removes no entry when usage_ <= capacity_ or lru_ is empty before the   *)
(* call; else (a Release left usage_ > capacity_ with entries on lru_) its *)
(* eviction loop removes the oldest entries of lru_, as many as it takes   *)
(* to reach usage_ <= capacity_ or an empty lru_.  No entry a client holds *)
(* is removed, usage_ falls by the charges removed, and the new entry      *)
(* stays cached when capacity_ > 0.                                        *)
C23_Amended ==
  [][\A key \in InsertKeys :
       (Find(key) = nullptr /\ InsertStep(key, 0)) =>
          /\ (usage_ <= capacity_ \/ lru_ = <<>>) => Uncached = {}
          /\ (usage_ > capacity_ /\ lru_ # <<>>) => Head(lru_) \in Uncached
          /\ \E n \in 0..Len(lru_) :
               /\ Uncached = {lru_[i] : i \in 1..n}
               /\ lru_' = SubSeq(lru_, n + 1, Len(lru_))
               /\ n > 0 =>
                    usage_ - SumOver([h \in Addrs |-> mem[h].charge],
                                     {lru_[i] : i \in 1..(n - 1)}) > capacity_
          /\ \A h \in Uncached : held[h] = 0
          /\ usage_' = usage_ - SumOver([h \in Addrs |-> mem[h].charge], Uncached)
          /\ Fits'
          /\ capacity_ > 0 =>
               (mem'[nextAddr].in_cache /\ nextAddr \in Range(in_use_'))]_vars

(* After a zero-charge Insert into a shard that a Release had left over    *)
(* capacity: the entry released is gone, the other two are held            *)
C23_Witness ==
  /\ capacity_ = 1
  /\ usage_ = 1
  /\ nextAddr = 4
  /\ mem[3].live /\ mem[3].charge = 0 /\ mem[3].in_cache
  /\ mem[2].live /\ mem[2].charge = 1 /\ mem[2].in_cache
  /\ in_use_ = <<2, 3>>
  /\ deleted[1] = 1
  /\ lru_ = <<>>

----------------------------------------------------------------------------
(* C24: in every state of a shard the table holds the in_cache handles and *)
(* no other, one per key at most: each handle on lru_ or in_use_ is what   *)
(* the table returns for its (key, hash).  So for every entry of lru_      *)
(* table_.Remove(key, hash) would return that entry, with refs = 1, no     *)
(* assertion of the shard ever fails, and Prune leaves lru_ empty, having  *)
(* taken out of the cache the entries of lru_ and no other.                *)
TableIsCache ==
  /\ TableHandles = Range(lru_) \cup Range(in_use_)
  /\ TableHandles = {h \in Addrs : Cached(h)}
  /\ elems_ = Len(lru_) + Len(in_use_)
  /\ \A h \in TableHandles :
       /\ mem[h].hash = HashSlice(mem[h].key)
       /\ Find(mem[h].key) = h
  /\ \A a, b \in TableHandles : mem[a].key = mem[b].key => a = b
  /\ \A i \in 1..Len(lru_) :
       /\ TableRemove(Cur, mem[lru_[i]].key, mem[lru_[i]].hash).h = lru_[i]
       /\ mem[lru_[i]].refs = 1
       /\ mem[lru_[i]].in_cache

C24_TableIsCache ==
  /\ [](ok /\ (~destroyed => TableIsCache))
  /\ [][/\ PruneStep =>
             /\ lru_' = <<>>
             /\ in_use_' = in_use_
             /\ Uncached = Range(lru_)
             /\ \A h \in Range(lru_) : ~mem'[h].live /\ deleted'[h] = 1
        /\ \A key \in InsertKeys, charge \in InsertCharges :
             InsertStep(key, charge) =>
               /\ Uncached \subseteq Range(lru_) \cup {Find(key)}
               /\ \A h \in Uncached : ~(h \in TableHandles')]_vars

(* Two entries whose hashes are equal, one on each list, and a displaced   *)
(* entry with the key of the first that a client still holds               *)
C24_Witness ==
  /\ ~destroyed
  /\ \E a, b, c \in Addrs :
       /\ a # b
       /\ OnLru(a) /\ OnInUse(b)
       /\ mem[a].hash = mem[b].hash
       /\ mem[c].live /\ ~mem[c].in_cache /\ held[c] > 0
       /\ mem[c].key = mem[a].key
       /\ ~InTable(c)

----------------------------------------------------------------------------
(* C25: whatever the interleaving of the Insert, Lookup, Release, Erase    *)
(* and Prune calls of concurrent threads on one shard, the calls exclude   *)
(* one another (a thread inside a call holds the mutex) and, for every     *)
(* live handle, refs = the client handles on it returned by Insert or      *)
(* Lookup and not yet released, plus 1 if it is in_cache.  Clients release *)
(* a handle once at most, so refs never underflows: no assertion fails, a  *)
(* handle a client holds, or that a Lookup is about to Ref, is live.       *)
InCall(t) == pc[t] # "idle"

C25_RefsCountClients ==
  /\ ok
  /\ \A t, u \in Threads : (InCall(t) /\ InCall(u)) => t = u
  /\ \A t \in Threads : InCall(t) => mutex_[TheShard] = t
  /\ \A h \in Addrs :
       /\ mem[h].live =>
            /\ mem[h].refs = held[h] + (IF mem[h].in_cache THEN 1 ELSE 0)
            /\ mem[h].refs >= 1
       /\ held[h] > 0 => mem[h].live
  /\ \A t \in Threads : lookup_e[t] # nullptr => mem[lookup_e[t]].live

(* A thread between table_.Lookup and Ref on an entry another client      *)
(* holds, after an entry was freed                                         *)
C25_Witness ==
  \E t \in Threads : \E h, d \in Addrs :
    /\ pc[t] = "found"
    /\ mutex_[TheShard] = t
    /\ lookup_e[t] = h
    /\ mem[h].refs = 2 /\ held[h] = 1
    /\ deleted[d] = 1

====
